---------------------------- MODULE Spec2Model ----------------------------
(***************************************************************************)
(* A model of the ifc-lite ingestion-to-mesh pipeline:                     *)
(*   - the byte-oriented entity scanner        (core/src/parser.rs)        *)
(*   - the tokenizer and entity parser         (core/src/parser.rs)        *)
(*   - the entity index and the lazy decoder   (core/src/decoder.rs)       *)
(*   - the mesh buffer                         (geometry/src/mesh.rs)      *)
(*   - the geometry router and its processors  (geometry/src/router.rs,    *)
(*                                              processors.rs, profiles.rs)*)
(*                                                                         *)
(* A text buffer is a sequence of one-character strings.  Offsets are      *)
(* 0-based as in the source; At(b, i) reads the byte at offset i.          *)
(***************************************************************************)
EXTENDS Integers, Sequences, FiniteSets, Bags, TLC

VARIABLES
    content,        \* the text buffer a scanner / decoder borrows
    position,       \* EntityScanner.position
    scan_ret,       \* what the last next_entity call returned, and from where
    scan_prev,      \* the entity returned before that one in the same pass
    scan_ended,     \* a next_entity call of this pass has returned None
    mesh,           \* the Mesh values the caller holds, by name
    mesh_op,        \* the last Mesh operation, with the values it started from
    mesh_unchecked, \* some add_triangle call was given an index >= vertex_count
    cache,          \* EntityDecoder.cache
    entity_index,   \* EntityDecoder.entity_index
    dec_ret,        \* the last EntityDecoder call: its arguments, the decoder
                    \* it started from and what it returned
    overflow_checks,\* the build panics on integer overflow (else it wraps)
    router_ret,     \* the last process_element call: the element and what
                    \* the call returned
    decoders,       \* the EntityDecoders two threads hold, one each
    alone,          \* the same decoders, each given its own calls only
    thread_ret,     \* the last call of a thread on its decoder
    state,          \* the ParserState a stream of parse_stream unfolds
    events,         \* the events the stream has yielded, in order
    stream_ended    \* the stream has yielded None

scanner_vars == <<position, scan_ret, scan_prev, scan_ended>>

mesh_vars == <<mesh, mesh_op, mesh_unchecked>>

decoder_vars == <<cache, entity_index, dec_ret>>

router_vars == <<overflow_checks, router_ret>>

threads_vars == <<decoders, alone, thread_ret>>

stream_vars == <<state, events, stream_ended>>

vars == <<content, scanner_vars, mesh_vars, decoder_vars, router_vars,
          threads_vars, stream_vars>>

(***************************************************************************)
(* Bytes                                                                   *)
(***************************************************************************)

\* Option::None of the source.
None == [some |-> FALSE]

\* 2^16.  The checker's integers are 32 bits wide, so a u32 is held as the
\* integer with the same 32-bit pattern (values from 2^31 on read as negative)
\* and u32 arithmetic is done on its two 16-bit halves.
Half == 65536

U32Hi(s) == (s \div Half) % Half

U32Lo(s) == s % Half

U32FromHalves(hi, lo) ==
    IF hi >= 32768 THEN (hi - Half) * Half + lo ELSE hi * Half + lo

\* let r = v; and what follows the binding: v is computed once.
Bind(v, K(_)) == K(v)

\* result.wrapping_mul(10).wrapping_add(digit) on u32, digit < 256.
WrappingMul10Add(s, digit) ==
    LET lo == U32Lo(s) * 10 + digit
        hi == U32Hi(s) * 10 + (lo \div Half)
    IN  U32FromHalves(hi % Half, lo % Half)

\* a.wrapping_add(b) on u32.
WrappingAdd(a, b) ==
    LET lo == U32Lo(a) + U32Lo(b)
        hi == U32Hi(a) + U32Hi(b) + (lo \div Half)
    IN  U32FromHalves(hi % Half, lo % Half)

Digits == {"0", "1", "2", "3", "4", "5", "6", "7", "8", "9"}

Upper == {"A", "B", "C", "D", "E", "F", "G", "H", "I", "J", "K", "L", "M",
          "N", "O", "P", "Q", "R", "S", "T", "U", "V", "W", "X", "Y", "Z"}

Lower == {"a", "b", "c", "d", "e", "f", "g", "h", "i", "j", "k", "l", "m",
          "n", "o", "p", "q", "r", "s", "t", "u", "v", "w", "x", "y", "z"}

\* u8::is_ascii_whitespace / char::is_whitespace on the bytes the buffers hold.
Whitespace == {" ", "\n", "\t", "\r"}

\* The printable ASCII characters, from code 32 to code 126 (the backslash and
\* the backtick, which no buffer holds, are spelled out).
Ascii ==
    <<" ", "!", "\"", "#", "$", "%", "&", "'", "(", ")", "*", "+", ",", "-", ".", "/",
      "0", "1", "2", "3", "4", "5", "6", "7", "8", "9", ":", ";", "<", "=", ">", "?",
      "@", "A", "B", "C", "D", "E", "F", "G", "H", "I", "J", "K", "L", "M", "N", "O",
      "P", "Q", "R", "S", "T", "U", "V", "W", "X", "Y", "Z", "[", "BACKSLASH", "]", "^", "_",
      "BACKTICK", "a", "b", "c", "d", "e", "f", "g", "h", "i", "j", "k", "l", "m", "n", "o",
      "p", "q", "r", "s", "t", "u", "v", "w", "x", "y", "z", "{", "|", "}", "~">>

\* The byte value of a character.
Ord(c) ==
    CASE c = "\t" -> 9
      [] c = "\n" -> 10
      [] c = "\r" -> 13
      [] OTHER -> 31 + (CHOOSE i \in 1..Len(Ascii) : Ascii[i] = c)

\* bytes[i], 0-based.
At(b, i) == b[i + 1]

\* &bytes[from..to], 0-based, to exclusive.
Slice(b, from, to) == SubSeq(b, from + 1, to)

\* memchr::memchr(c, &bytes[from..]) as an absolute offset; -1 when absent.
Memchr(c, b, from) ==
    LET hits == {i \in from..(Len(b) - 1) : At(b, i) = c}
    IN  IF hits = {} THEN -1
        ELSE CHOOSE i \in hits : \A j \in hits : i <= j

\* MemchrIn with the search running on to the end of the buffer.
MemchrIn_Unbounded(c, b, from, to) == Memchr(c, b, from)

\* memchr::memchr(c, &bytes[from..to]) as an absolute offset; -1 when absent.
MemchrIn(c, b, from, to) ==
    LET hits == {i \in from..(to - 1) : At(b, i) = c}
    IN  IF hits = {} THEN -1
        ELSE CHOOSE i \in hits : \A j \in hits : i <= j

\* while i < limit && bytes[i].is_ascii_digit() { i += 1 }
RECURSIVE SkipDigits(_, _, _)
SkipDigits(b, i, limit) ==
    IF i < limit /\ At(b, i) \in Digits THEN SkipDigits(b, i + 1, limit) ELSE i

\* while i < limit && bytes[i].is_ascii_whitespace() { i += 1 }
RECURSIVE SkipWhitespace(_, _, _)
SkipWhitespace(b, i, limit) ==
    IF i < limit /\ At(b, i) \in Whitespace THEN SkipWhitespace(b, i + 1, limit) ELSE i

\* while i < limit { if b == '(' || b.is_ascii_whitespace() { break } i += 1 }
RECURSIVE SkipTypeName(_, _, _)
SkipTypeName(b, i, limit) ==
    IF i < limit /\ At(b, i) # "(" /\ At(b, i) \notin Whitespace
    THEN SkipTypeName(b, i + 1, limit) ELSE i

\* bytes[i].wrapping_sub(b'0')
WrappingSubZero(c) == (Ord(c) - 48) % 256

(***************************************************************************)
(* EntityScanner                                                           *)
(***************************************************************************)

\* EntityScanner::parse_u32_fast: None on a non-digit, else the wrapping value.
RECURSIVE parse_u32_fast_from(_, _, _, _)
parse_u32_fast_from(b, i, end, result) ==
    IF i >= end THEN [some |-> TRUE, val |-> result]
    ELSE LET digit == WrappingSubZero(At(b, i))
         IN  IF digit > 9 THEN None
             ELSE parse_u32_fast_from(b, i + 1, end, WrappingMul10Add(result, digit))

parse_u32_fast(b, start, end) == parse_u32_fast_from(b, start, end, 0)

\* ScannerLineEnd with the terminating ';' left out of the range.
ScannerLineEnd_Short(line_start, end_offset) == line_start + end_offset

\* line_end = line_start + end_offset + 1: just past the ';'.
ScannerLineEnd(line_start, end_offset) == line_start + end_offset + 1

\* The cursor next_entity leaves when it returns an entity.
ScannerAdvance(pos, line_end) == line_end

\* EntityScanner::next_entity on bytes b with the cursor at pos.  The result
\* holds what the call returns (some, id, type_name, line_start, line_end), the
\* cursor it leaves (position) and whether a slice or index went out of bounds
\* (panic).
next_entity(b, pos) ==
    LET len == Len(b)
        stay(p) == [some |-> FALSE, position |-> pos, panic |-> p]
    IN
    IF pos > len THEN stay(TRUE)                      \* &self.bytes[self.position..]
    ELSE
    LET line_start == Memchr("#", b, pos) IN
    IF line_start = -1 THEN stay(FALSE)               \* memchr('#')?
    ELSE
    LET semi == Memchr(";", b, line_start) IN
    IF semi = -1 THEN stay(FALSE)                     \* memchr(';')?
    ELSE
    LET end_offset == semi - line_start
        line_end   == ScannerLineEnd(line_start, end_offset)
        id_start   == line_start + 1
    IN
    IF line_end > len THEN stay(TRUE)                 \* self.bytes[id_end], slices
    ELSE
    LET id_end == SkipDigits(b, id_start, line_end)
        id     == parse_u32_fast(b, id_start, id_end)
    IN
    IF ~id.some THEN stay(FALSE)                      \* parse_u32_fast(..)?
    ELSE IF id_end > line_end THEN stay(TRUE)         \* &self.bytes[id_end..line_end]
    ELSE
    LET eq == MemchrIn("=", b, id_end, line_end) IN
    IF eq = -1 THEN stay(FALSE)                       \* memchr('=')?
    ELSE
    LET type_start == SkipWhitespace(b, eq + 1, line_end)
        type_end   == SkipTypeName(b, type_start, line_end)
    IN
    [some       |-> TRUE,
     id         |-> id.val,
     type_name  |-> Slice(b, type_start, type_end),
     line_start |-> line_start,
     line_end   |-> line_end,
     position   |-> ScannerAdvance(pos, line_end),
     panic      |-> FALSE]

(***************************************************************************)
(* The scanner as a state machine: one buffer, any sequence of next_entity *)
(* and reset calls.                                                        *)
(***************************************************************************)

\* The longest buffer the scanner is run on.
MaxLen == 6

ScanAlphabet == {"#", "1", "=", ";", "A"}

\* Buffers with whitespace and parentheses, which the alphabet leaves out.
ScanSamples ==
    { <<"#", "1", " ", "=", " ", "A", " ", "(", ")", ";">>,
      <<"\n", "#", "1", "=", "A", "(", "#", "2", ")", ";", "\n", "#", "2", "=", "B", ";">>,
      <<"#", "1", "=", "A", "(", ")", ";", "#", "2", " ", "A", ";", "#", "3", "=", "A", ";">>,
      <<"#", "1", "=", "A", "(", ")", ";", " ", "#", "2", "=", "A", "(">> }

ScanBuffers ==
    ScanSamples \cup UNION {[1..n -> ScanAlphabet] : n \in 0..MaxLen}

\* No scanner is in use.
IdleScanner ==
    /\ position = 0
    /\ scan_ret = [called |-> FALSE]
    /\ scan_prev = None
    /\ scan_ended = FALSE

\* No mesh is in use.
IdleMesh ==
    /\ mesh = <<>>
    /\ mesh_op = [op |-> "none"]
    /\ mesh_unchecked = FALSE

\* No decoder is in use.
IdleDecoder ==
    /\ cache = <<>>
    /\ entity_index = None
    /\ dec_ret = [op |-> "none"]

\* No router is in use.
IdleRouter ==
    /\ overflow_checks = FALSE
    /\ router_ret = [op |-> "none"]

\* No pair of threads is running.
IdleThreads ==
    /\ decoders = <<>>
    /\ alone = <<>>
    /\ thread_ret = [op |-> "none"]

\* No stream is in use.
IdleStream ==
    /\ state = None
    /\ events = <<>>
    /\ stream_ended = FALSE

InitScanner ==
    /\ content \in ScanBuffers
    /\ IdleThreads
    /\ IdleStream
    /\ IdleMesh
    /\ IdleDecoder
    /\ IdleRouter
    /\ position = 0
    /\ scan_ret = [called |-> FALSE]
    /\ scan_prev = None
    /\ scan_ended = FALSE

\* scanner.next_entity()
NextEntity ==
    LET r == next_entity(content, position) IN
    /\ scan_ret.called => ~scan_ret.panic
    /\ position' = r.position
    /\ scan_ret' = [called |-> TRUE, from |-> position, panic |-> r.panic,
                    ended_before |-> scan_ended,
                    ret |-> IF r.some
                            THEN [some |-> TRUE, id |-> r.id, type_name |-> r.type_name,
                                  line_start |-> r.line_start, line_end |-> r.line_end]
                            ELSE None]
    /\ scan_prev' = IF scan_ret.called /\ scan_ret.ret.some THEN scan_ret.ret ELSE scan_prev
    /\ scan_ended' = (scan_ended \/ ~r.some)
    /\ UNCHANGED <<content, mesh_vars, decoder_vars, router_vars,
                     threads_vars, stream_vars>>

\* scanner.reset()
Reset ==
    /\ scan_ret.called
    /\ ~scan_ret.panic
    /\ position' = 0
    /\ scan_ret' = [called |-> FALSE]
    /\ scan_prev' = None
    /\ scan_ended' = FALSE
    /\ UNCHANGED <<content, mesh_vars, decoder_vars, router_vars,
                     threads_vars, stream_vars>>

NextScanner == NextEntity \/ Reset

SpecScanner == InitScanner /\ [][NextScanner]_vars

(***************************************************************************)
(* Properties of the scanner                                               *)
(***************************************************************************)

\* The offset of the first c at or after from; -1 when there is none.
FirstOffset(c, b, from) ==
    IF \E i \in from..(Len(b) - 1) : At(b, i) = c
    THEN CHOOSE i \in from..(Len(b) - 1) :
            At(b, i) = c /\ \A j \in from..(i - 1) : At(b, j) # c
    ELSE -1

\* The statement at the next '#' at or after p is malformed: no ';' follows
\* the '#', or no '=' stands between the id's digit run and that ';'.
MalformedAt(b, p) ==
    LET h == FirstOffset("#", b, p) IN
    /\ h # -1
    /\ LET s == FirstOffset(";", b, h) IN
       \/ s = -1
       \/ \A k \in (h + 1)..(s - 1) : At(b, k) # "="

\* C9: next_entity never goes out of bounds; at a statement with no ';' after
\* its '#', or with no '=' between its id and that ';', it returns None and
\* leaves the cursor where it was; once a call has returned None, every later
\* call of the pass returns None.
C9_ScannerStopsAtMalformed ==
    scan_ret.called =>
        /\ ~scan_ret.panic
        /\ MalformedAt(content, scan_ret.from) =>
              (~scan_ret.ret.some /\ position = scan_ret.from)
        /\ scan_ret.ended_before => ~scan_ret.ret.some

\* A pass that returned an entity and then met a malformed statement, twice.
C9_Witness ==
    /\ scan_ret.called
    /\ scan_ret.from > 0
    /\ MalformedAt(content, scan_ret.from)
    /\ scan_ret.ended_before
    /\ ~scan_ret.ret.some

\* C10: within one pass the returned entities are in byte order: each range
\* starts at a '#' and ends just past the first ';' after it, starts after the
\* previous start and not before the previous end, and the cursor never moves
\* backwards.
C10_ScannerMonotonic ==
    scan_ret.called =>
        /\ scan_ret.from <= position
        /\ scan_ret.ret.some =>
              LET e == scan_ret.ret IN
              /\ At(content, e.line_start) = "#"
              /\ e.line_end <= Len(content)
              /\ At(content, e.line_end - 1) = ";"
              /\ \A k \in e.line_start..(e.line_end - 2) : At(content, k) # ";"
              /\ scan_prev.some =>
                    /\ scan_prev.line_start < e.line_start
                    /\ scan_prev.line_end <= e.line_start

\* Two entities returned one after the other in the same pass.
C10_Witness ==
    /\ scan_ret.called
    /\ scan_ret.ret.some
    /\ scan_prev.some

(***************************************************************************)
(* Mesh                                                                    *)
(***************************************************************************)

\* Mesh::new
MeshNew == [positions |-> <<>>, normals |-> <<>>, indices |-> <<>>]

\* Mesh::vertex_count
vertex_count(m) == Len(m.positions) \div 3

\* Mesh::triangle_count
triangle_count(m) == Len(m.indices) \div 3

\* Mesh::is_empty
is_empty(m) == m.positions = <<>>

\* Mesh::add_vertex: three floats onto positions, three onto normals.
add_vertex(m, p, n) ==
    [m EXCEPT !.positions = @ \o p, !.normals = @ \o n]

\* Mesh::add_triangle: the three indices as given.
add_triangle(m, i0, i1, i2) ==
    [m EXCEPT !.indices = @ \o <<i0, i1, i2>>]

\* The offset left at zero.
VertexOffset_Zero(m) == 0

\* let vertex_offset = (self.positions.len() / 3) as u32
VertexOffset(m) == Len(m.positions) \div 3

\* merge_all's offset counted in floats instead of vertices.
MergeAllOffset_Floats(m) == Len(m.positions)

\* merge_all's own vertex_offset
MergeAllOffset(m) == Len(m.positions) \div 3

\* The indices appended as they are.
Rebase_Unshifted(indices, vertex_offset) == indices

\* other.indices.iter().map(|&i| i + vertex_offset)
Rebase(indices, vertex_offset) ==
    [k \in 1..Len(indices) |-> WrappingAdd(indices[k], vertex_offset)]

\* Mesh::merge with the other mesh put in front.
merge_OtherFirst(self, other) ==
    [positions |-> other.positions \o self.positions,
     normals   |-> other.normals \o self.normals,
     indices   |-> other.indices \o Rebase(self.indices, VertexOffset(other))]

\* Mesh::merge
merge(self, other) ==
    LET vertex_offset == VertexOffset(self) IN
    [positions |-> self.positions \o other.positions,
     normals   |-> self.normals \o other.normals,
     indices   |-> self.indices \o Rebase(other.indices, vertex_offset)]

\* Mesh::merge_all, from the k-th mesh of the slice on.
RECURSIVE merge_all_from(_, _, _)
merge_all_from(self, meshes, k) ==
    IF k > Len(meshes) THEN self
    ELSE LET m == meshes[k] IN
         IF ~is_empty(m)
         THEN merge_all_from(
                [positions |-> self.positions \o m.positions,
                 normals   |-> self.normals \o m.normals,
                 indices   |-> self.indices \o Rebase(m.indices, MergeAllOffset(self))],
                meshes, k + 1)
         ELSE merge_all_from(self, meshes, k + 1)

\* Mesh::merge_all
merge_all(self, meshes) == merge_all_from(self, meshes, 1)

(***************************************************************************)
(* The mesh buffer as a state machine: the caller holds meshes by name and *)
(* applies the public operations to them in any order.                     *)
(***************************************************************************)

\* The most vertices a mesh is grown to.
MaxVertices == 2

\* The most triangles a mesh is grown to.
MaxTriangles == 2

\* The longest slice handed to merge_all.
MaxMergeAll == 2

MeshIds == {"a", "b"}

\* The point add_vertex is given, one per mesh so that a merged mesh shows
\* where each of its vertices came from.
SamplePoint(id) == IF id = "a" THEN <<0, 0, 0>> ELSE <<1, 2, 3>>

SampleNormals == {<<0, 0, 1>>}

\* Index triples handed to add_triangle: the code accepts any u32.
SampleTriangles == {<<0, 0, 0>>, <<0, 1, 0>>}

InBounds(m) ==
    /\ vertex_count(m) <= MaxVertices
    /\ triangle_count(m) <= MaxTriangles

InitMesh ==
    /\ content = <<>>
    /\ IdleThreads
    /\ IdleStream
    /\ IdleScanner
    /\ IdleDecoder
    /\ IdleRouter
    /\ mesh = [id \in MeshIds |-> MeshNew]
    /\ mesh_op = [op |-> "new"]
    /\ mesh_unchecked = FALSE

\* mesh[id] = Mesh::new()
MeshNewOp ==
    \E id \in MeshIds :
        /\ mesh[id] # MeshNew
        /\ mesh' = [mesh EXCEPT ![id] = MeshNew]
        /\ mesh_op' = [op |-> "new"]
        /\ UNCHANGED <<content, scanner_vars, decoder_vars, router_vars, mesh_unchecked,
                     threads_vars, stream_vars>>

\* mesh[id].add_vertex(p, n)
AddVertex ==
    \E id \in MeshIds, n \in SampleNormals :
        LET m == add_vertex(mesh[id], SamplePoint(id), n) IN
        /\ InBounds(m)
        /\ mesh' = [mesh EXCEPT ![id] = m]
        /\ mesh_op' = [op |-> "add_vertex"]
        /\ UNCHANGED <<content, scanner_vars, decoder_vars, router_vars, mesh_unchecked,
                     threads_vars, stream_vars>>

\* mesh[id].add_triangle(i0, i1, i2)
AddTriangle ==
    \E id \in MeshIds, t \in SampleTriangles :
        LET m == add_triangle(mesh[id], t[1], t[2], t[3]) IN
        /\ InBounds(m)
        /\ mesh' = [mesh EXCEPT ![id] = m]
        /\ mesh_op' = [op |-> "add_triangle"]
        /\ mesh_unchecked' =
             (mesh_unchecked \/ \E k \in 1..3 : t[k] >= vertex_count(mesh[id]))
        /\ UNCHANGED <<content, scanner_vars, decoder_vars, router_vars,
                     threads_vars, stream_vars>>

\* The mesh that merge and merge_all grow, as the router's combined mesh is;
\* the other meshes are built vertex by vertex and handed over as operands.
MergeTargets == {"a"}

\* mesh[dst].merge(&mesh[src])
Merge ==
    \E dst \in MergeTargets, src \in MeshIds \ MergeTargets :
        LET m == merge(mesh[dst], mesh[src]) IN
        /\ InBounds(m)
        /\ mesh' = [mesh EXCEPT ![dst] = m]
        /\ mesh_op' = [op |-> "merge", dst |-> dst, self |-> mesh[dst], other |-> mesh[src]]
        /\ UNCHANGED <<content, scanner_vars, decoder_vars, router_vars, mesh_unchecked,
                     threads_vars, stream_vars>>

\* mesh[dst].merge_all(&[..]), the slice holding clones of the caller's meshes
MergeAll ==
    \E dst \in MergeTargets, n \in 0..MaxMergeAll :
        \E srcs \in [1..n -> MeshIds \ MergeTargets] :
            LET meshes == [k \in 1..n |-> mesh[srcs[k]]]
                m == merge_all(mesh[dst], meshes)
            IN
            /\ InBounds(m)
            /\ mesh' = [mesh EXCEPT ![dst] = m]
            /\ mesh_op' = [op |-> "merge_all", dst |-> dst, self |-> mesh[dst],
                           meshes |-> meshes]
            /\ UNCHANGED <<content, scanner_vars, decoder_vars, router_vars, mesh_unchecked,
                     threads_vars, stream_vars>>

NextMesh == MeshNewOp \/ AddVertex \/ AddTriangle \/ Merge \/ MergeAll

SpecMesh == InitMesh /\ [][NextMesh]_vars

(***************************************************************************)
(* Properties of the mesh buffer                                           *)
(***************************************************************************)

\* Every index of m names a vertex of m.
IndicesValid(m) ==
    \A k \in 1..Len(m.indices) :
        m.indices[k] >= 0 /\ m.indices[k] < Len(m.positions) \div 3

\* C4 as stated: after any sequence of new, add_vertex, add_triangle, merge
\* and merge_all every stored index is below vertex_count.
C4_IndicesBelowVertexCount ==
    \A id \in MeshIds : IndicesValid(mesh[id])

\* C4 as amended: the same, for the sequences in which every add_triangle call
\* was given indices below the vertex count its mesh had at the call.
C4_IndicesValidIfTrianglesChecked ==
    ~mesh_unchecked => \A id \in MeshIds : IndicesValid(mesh[id])

\* A merge_all that rebased the triangles of its operands onto a mesh that
\* already had vertices and a triangle, every add_triangle so far having been
\* in range.
C4_Witness ==
    /\ ~mesh_unchecked
    /\ mesh_op.op = "merge_all"
    /\ mesh_op.self.positions # <<>>
    /\ mesh_op.self.indices # <<>>
    /\ Len(mesh[mesh_op.dst].indices) > Len(mesh_op.self.indices)

\* C5: a.merge(b) keeps a's positions, normals and indices as a prefix, appends
\* b's positions and normals, and appends each index of b plus the vertex count
\* a had; so valid indices in a and b give valid indices in the result.
C5_MergeRebases ==
    mesh_op.op = "merge" =>
        LET a == mesh_op.self
            b == mesh_op.other
            r == mesh[mesh_op.dst]
            va == Len(a.positions) \div 3
        IN
        /\ r.positions = a.positions \o b.positions
        /\ r.normals = a.normals \o b.normals
        /\ Len(r.indices) = Len(a.indices) + Len(b.indices)
        /\ \A k \in 1..Len(a.indices) : r.indices[k] = a.indices[k]
        /\ \A k \in 1..Len(b.indices) : r.indices[Len(a.indices) + k] = b.indices[k] + va
        /\ (IndicesValid(a) /\ IndicesValid(b)) => IndicesValid(r)

\* A merge of two non-empty meshes with valid indices, the right one with a
\* triangle.
C5_Witness ==
    /\ mesh_op.op = "merge"
    /\ mesh_op.self.positions # <<>>
    /\ mesh_op.self.indices # <<>>
    /\ mesh_op.other.indices # <<>>
    /\ IndicesValid(mesh_op.self)
    /\ IndicesValid(mesh_op.other)

(***************************************************************************)
(* Tokenizer (the nom parsers of core/src/parser.rs)                       *)
(*                                                                         *)
(* A parser takes the line b and an offset i and returns either            *)
(* [ok |-> TRUE, val |-> v, rest |-> j], j being the offset of the first   *)
(* byte it did not consume, or ParseFail (nom's recoverable Err::Error).   *)
(***************************************************************************)

ParseFail == [ok |-> FALSE]

ParseOk(v, j) == [ok |-> TRUE, val |-> v, rest |-> j]

\* The text of a byte slice, as one string.
RECURSIVE Str(_)
Str(s) == IF s = <<>> THEN "" ELSE Head(s) \o Str(Tail(s))

\* char::is_alphanumeric() || c == '_' on the bytes the buffers hold.
NameChars == Digits \cup Upper \cup Lower \cup {"_"}

\* char(c): the byte at i is c.
IsChar(b, i, c) == i < Len(b) /\ At(b, i) = c

\* take_while(f) from i: the offset of the first byte outside the set.
RECURSIVE TakeWhile(_, _, _)
TakeWhile(b, i, set) ==
    IF i < Len(b) /\ At(b, i) \in set THEN TakeWhile(b, i + 1, set) ELSE i

\* ws: take_while(is_whitespace); never fails.
ws(b, i) == TakeWhile(b, i, Whitespace)

\* The value of the decimal digits b[from..to) as a mathematical integer
\* (for digit runs of at most nine digits).
RECURSIVE DecimalValue(_, _, _, _)
DecimalValue(b, i, to, acc) ==
    IF i >= to THEN acc
    ELSE DecimalValue(b, i + 1, to, acc * 10 + (Ord(At(b, i)) - 48))

\* str::parse::<u32> on a run of digits: None when the value passes u32::MAX.
RECURSIVE ParseU32Checked(_, _, _, _)
ParseU32Checked(b, i, to, acc) ==
    IF i >= to THEN [some |-> TRUE, val |-> acc]
    ELSE LET digit == Ord(At(b, i)) - 48
             lo == U32Lo(acc) * 10 + digit
             hi == U32Hi(acc) * 10 + (lo \div Half)
         IN  IF hi >= Half THEN None
             ELSE ParseU32Checked(b, i + 1, to, U32FromHalves(hi, lo % Half))

\* preceded(char('#'), map_res(digit1, parse::<u32>)): the id, or ParseFail.
HashId(b, i) ==
    IF ~IsChar(b, i, "#") THEN ParseFail
    ELSE Bind(TakeWhile(b, i + 1, Digits), LAMBDA j :
         IF j = i + 1 THEN ParseFail
         ELSE Bind(ParseU32Checked(b, i + 1, j, 0), LAMBDA id :
              IF id.some THEN ParseOk(id.val, j) ELSE ParseFail))

\* entity_ref: #123
entity_ref(b, i) ==
    Bind(HashId(b, i), LAMBDA r :
    IF r.ok THEN ParseOk([kind |-> "EntityRef", id |-> r.val], r.rest) ELSE ParseFail)

\* parse_string_content: the offset of the closing quote, a doubled quote
\* being skipped as an escape; -1 when the string is not closed.
RECURSIVE parse_string_content(_, _, _)
parse_string_content(b, i, quote) ==
    IF i >= Len(b) THEN -1
    ELSE IF At(b, i) = quote
         THEN IF i + 1 < Len(b) /\ At(b, i + 1) = quote
              THEN parse_string_content(b, i + 2, quote)
              ELSE i
         ELSE parse_string_content(b, i + 1, quote)

\* delimited(char(q), parse_string_content, char(q)): the raw text between
\* the quotes, escapes left doubled.
QuotedString(b, i, quote) ==
    IF ~IsChar(b, i, quote) THEN ParseFail
    ELSE Bind(parse_string_content(b, i + 1, quote), LAMBDA j :
         IF j = -1 THEN ParseFail
         ELSE ParseOk([kind |-> "String", s |-> Str(Slice(b, i + 1, j))], j + 1))

\* string_literal: 'text' or "text"
string_literal(b, i) ==
    Bind(QuotedString(b, i, "'"), LAMBDA single :
    IF single.ok THEN single ELSE QuotedString(b, i, "\""))

\* opt(char('-')): the offset after an optional minus sign.
OptMinus(b, i) == IF IsChar(b, i, "-") THEN i + 1 ELSE i

\* integer: 42, -42
integer(b, i) ==
    Bind(OptMinus(b, i), LAMBDA d :
    Bind(TakeWhile(b, d, Digits), LAMBDA j :
    IF j = d THEN ParseFail
    ELSE Bind(DecimalValue(b, d, j, 0), LAMBDA v :
         ParseOk([kind |-> "Integer", v |-> IF d > i THEN 0 - v ELSE v], j))))

\* A decimal m * 10^e without trailing zeros in m; zero is 0 * 10^0.
RECURSIVE NormalizeDecimal(_, _)
NormalizeDecimal(m, e) ==
    IF m = 0 THEN [mant |-> 0, exp |-> 0]
    ELSE IF m % 10 = 0 THEN NormalizeDecimal(m \div 10, e + 1)
    ELSE [mant |-> m, exp |-> e]

\* lexical_core::parse::<f64> on the text float recognized: the number it
\* denotes, held as sign, mantissa and decimal exponent (exact for the short
\* literals of the buffers, which f64 tells apart; -0. equals 0. as in f64).
FloatValue(b, neg, int_from, int_to, frac_to, exp_neg, exp_from, exp_to) ==
    Bind(DecimalValue(b, int_to + 1, frac_to, DecimalValue(b, int_from, int_to, 0)),
         LAMBDA digits :
    Bind(DecimalValue(b, exp_from, exp_to, 0), LAMBDA e :
    Bind(NormalizeDecimal(digits, (IF exp_neg THEN 0 - e ELSE e) - (frac_to - (int_to + 1))),
         LAMBDA n :
    [kind |-> "Float", neg |-> neg /\ n.mant # 0, mant |-> n.mant, exp |-> n.exp])))

\* float: 3.14, -3.14, 1.5E-10, 0., 1.
float(b, i) ==
    Bind(OptMinus(b, i), LAMBDA d :
    Bind(TakeWhile(b, d, Digits), LAMBDA j :
    IF j = d \/ ~IsChar(b, j, ".") THEN ParseFail
    ELSE
    Bind(TakeWhile(b, j + 1, Digits), LAMBDA k :                  \* opt(digit1)
    Bind(k < Len(b) /\ At(b, k) \in {"e", "E"}, LAMBDA has_e :
    Bind(IF has_e /\ k + 1 < Len(b) /\ At(b, k + 1) \in {"+", "-"}
         THEN k + 2 ELSE k + 1, LAMBDA s :
    Bind(IF has_e THEN TakeWhile(b, s, Digits) ELSE s, LAMBDA m :
    IF has_e /\ m > s                                             \* opt(tuple(..))
    THEN ParseOk(FloatValue(b, d > i, d, j, k, IsChar(b, k + 1, "-"), s, m), m)
    ELSE ParseOk(FloatValue(b, d > i, d, j, k, FALSE, k, k), k)))))))

\* enum_value: .TRUE., .FALSE., .ELEMENT.
enum_value(b, i) ==
    IF ~IsChar(b, i, ".") THEN ParseFail
    ELSE Bind(TakeWhile(b, i + 1, NameChars), LAMBDA j :
         IF j = i + 1 \/ ~IsChar(b, j, ".") THEN ParseFail
         ELSE ParseOk([kind |-> "Enum", s |-> Str(Slice(b, i + 1, j))], j + 1))

\* null: $
null(b, i) ==
    IF IsChar(b, i, "$") THEN ParseOk([kind |-> "Null"], i + 1) ELSE ParseFail

\* derived: *
derived(b, i) ==
    IF IsChar(b, i, "*") THEN ParseOk([kind |-> "Derived"], i + 1) ELSE ParseFail

\* delimited(ws, char(','), ws): the offset after the separator, -1 without one.
Separator(b, i) ==
    Bind(ws(b, i), LAMBDA j :
    IF IsChar(b, j, ",") THEN ws(b, j + 1) ELSE -1)

RECURSIVE token(_, _)
RECURSIVE separated_list0_more(_, _, _)
RECURSIVE separated_list0(_, _)
RECURSIVE ParenList(_, _)

\* separated_list0 after its first element: a separator and a token, again and
\* again; a separator no token follows is not consumed.
separated_list0_more(b, i, acc) ==
    Bind(Separator(b, i), LAMBDA s :
    IF s = -1 THEN ParseOk(acc, i)
    ELSE Bind(token(b, s), LAMBDA t :
         IF ~t.ok THEN ParseOk(acc, i)
         ELSE separated_list0_more(b, t.rest, Append(acc, t.val))))

\* separated_list0(delimited(ws, char(','), ws), token): never fails; without a
\* first token it consumes nothing.
separated_list0(b, i) ==
    Bind(token(b, i), LAMBDA t :
    IF ~t.ok THEN ParseOk(<<>>, i)
    ELSE separated_list0_more(b, t.rest, <<t.val>>))

\* delimited(char('('), separated_list0(..), char(')'))
ParenList(b, i) ==
    IF ~IsChar(b, i, "(") THEN ParseFail
    ELSE Bind(separated_list0(b, i + 1), LAMBDA l :
         IF IsChar(b, l.rest, ")") THEN ParseOk(l.val, l.rest + 1) ELSE ParseFail)

\* list: (1, 2, 3) or nested lists
list(b, i) ==
    Bind(ParenList(b, i), LAMBDA l :
    IF l.ok THEN ParseOk([kind |-> "List", items |-> l.val], l.rest) ELSE ParseFail)

\* typed_value: IFCPARAMETERVALUE(0.), IFCBOOLEAN(.T.)
typed_value(b, i) ==
    Bind(TakeWhile(b, i, NameChars), LAMBDA j :
    IF j = i THEN ParseFail
    ELSE Bind(ParenList(b, j), LAMBDA l :
         IF l.ok
         THEN ParseOk([kind |-> "TypedValue", type_name |-> Str(Slice(b, i, j)),
                       args |-> l.val], l.rest)
         ELSE ParseFail))

\* alt over the results of its parsers, in their order: the first that accepted.
FirstOk(results) ==
    IF \A k \in DOMAIN results : ~results[k].ok THEN ParseFail
    ELSE results[CHOOSE k \in DOMAIN results :
                     results[k].ok /\ \A m \in 1..(k - 1) : ~results[m].ok]

\* alt with the integer rule tried before the float rule.
TokenAlt_IntegerFirst(b, i) ==
    FirstOk(<<integer(b, i), float(b, i), entity_ref(b, i), string_literal(b, i),
              enum_value(b, i), list(b, i), typed_value(b, i), null(b, i),
              derived(b, i)>>)

\* alt((float, integer, entity_ref, string_literal, enum_value, list,
\* typed_value, null, derived)): the first alternative that accepts the input.
TokenAlt(b, i) ==
    FirstOk(<<float(b, i), integer(b, i), entity_ref(b, i), string_literal(b, i),
              enum_value(b, i), list(b, i), typed_value(b, i), null(b, i),
              derived(b, i)>>)

\* token: delimited(ws, alt((float, integer, ...)), ws)
token(b, i) ==
    Bind(TokenAlt(b, ws(b, i)), LAMBDA t :
    IF t.ok THEN ParseOk(t.val, ws(b, t.rest)) ELSE ParseFail)

(***************************************************************************)
(* IfcType::from_str and parse_entity                                      *)
(***************************************************************************)

\* The type names IfcType::from_str knows, each with a variant of its own.
KnownTypeNames ==
    {"IFCWALL", "IFCWALLSTANDARDCASE", "IFCSLAB", "IFCBEAM", "IFCCOLUMN",
     "IFCROOF", "IFCSTAIR", "IFCRAILING", "IFCCURTAINWALL", "IFCPLATE",
     "IFCMEMBER", "IFCFOOTING", "IFCPILE", "IFCCOVERING",
     "IFCBUILDINGELEMENTPROXY", "IFCBUILDINGELEMENTPART",
     "IFCELEMENTASSEMBLY", "IFCREINFORCINGBAR", "IFCREINFORCINGMESH",
     "IFCTENDON", "IFCDOOR", "IFCWINDOW", "IFCOPENINGELEMENT", "IFCSPACE",
     "IFCBUILDINGSTOREY", "IFCBUILDING", "IFCSITE", "IFCPROJECT",
     "IFCRELAGGREGATES", "IFCRELCONTAINEDINSPATIALSTRUCTURE",
     "IFCRELDEFINESBYPROPERTIES", "IFCRELASSOCIATESMATERIAL",
     "IFCRELVOIDSELEMENT", "IFCRELFILLSELEMENT", "IFCPROPERTYSET",
     "IFCPROPERTYSINGLEVALUE", "IFCPROPERTYENUMERATEDVALUE",
     "IFCELEMENTQUANTITY", "IFCQUANTITYLENGTH", "IFCQUANTITYAREA",
     "IFCQUANTITYVOLUME", "IFCQUANTITYCOUNT", "IFCQUANTITYWEIGHT",
     "IFCQUANTITYTIME", "IFCPHYSICALSIMPLEQUANTITY", "IFCMATERIAL",
     "IFCMATERIALLAYER", "IFCMATERIALLAYERSET", "IFCMATERIALLAYERSETUSAGE",
     "IFCSHAPEREPRESENTATION", "IFCPRODUCTDEFINITIONSHAPE",
     "IFCEXTRUDEDAREASOLID", "IFCSWEPTDISKSOLID", "IFCREVOLVEDAREASOLID",
     "IFCFACETEDBREP", "IFCTRIANGULATEDFACESET", "IFCPOLYGONALFACESET",
     "IFCBOOLEANRESULT", "IFCBOOLEANCLIPPINGRESULT", "IFCAXIS2PLACEMENT3D",
     "IFCAXIS2PLACEMENT2D", "IFCLOCALPLACEMENT", "IFCCARTESIANPOINT",
     "IFCDIRECTION", "IFCPOLYLINE", "IFCARBITRARYCLOSEDPROFILEDEF",
     "IFCARBITRARYPROFILEDEFWITHVOIDS", "IFCRECTANGLEPROFILEDEF",
     "IFCCIRCLEPROFILEDEF", "IFCISHAPEPROFILEDEF", "IFCLSHAPEPROFILEDEF",
     "IFCUSHAPEPROFILEDEF", "IFCTSHAPEPROFILEDEF", "IFCCSHAPEPROFILEDEF",
     "IFCZSHAPEPROFILEDEF", "IFCCIRCLEHOLLOWPROFILEDEF",
     "IFCCOMPOSITEPROFILEDEF", "IFCINDEXEDPOLYCURVE", "IFCCOMPOSITECURVE",
     "IFCCOMPOSITECURVESEGMENT", "IFCTRIMMEDCURVE", "IFCCIRCLE",
     "IFCELLIPSE", "IFCLINE", "IFCCARTESIANPOINTLIST2D",
     "IFCCARTESIANPOINTLIST3D", "IFCMAPPEDITEM", "IFCREPRESENTATIONMAP",
     "IFCPIPESEGMENT", "IFCDUCTSEGMENT", "IFCCABLESEGMENT",
     "IFCFURNISHINGELEMENT", "IFCFURNITURE", "IFCANNOTATION", "IFCGRID",
     "IFCSTYLEDITEM", "IFCPRESENTATIONSTYLEASSIGNMENT", "IFCSURFACESTYLE",
     "IFCSURFACESTYLERENDERING", "IFCSURFACESTYLESHADING", "IFCCOLOURRGB",
     "IFCOWNERHISTORY", "IFCPERSON", "IFCORGANIZATION", "IFCAPPLICATION"}

\* simple_hash: djb2 over the bytes, of which the low 16 bits are kept (they
\* depend on the low 16 bits of each step only).
RECURSIVE simple_hash_from(_, _, _)
simple_hash_from(name, i, hash) ==
    IF i > Len(name) THEN hash
    ELSE simple_hash_from(name, i + 1, (hash * 33 + Ord(name[i])) % Half)

simple_hash(name) == simple_hash_from(name, 1, 5381)

\* IfcType::from_str on the bytes of a type name: never None.
IfcTypeFromStr(name) ==
    IF Str(name) \in KnownTypeNames
    THEN [kind |-> "Known", name |-> Str(name)]
    ELSE [kind |-> "Unknown", hash |-> simple_hash(name)]

\* parse_entity on one line: (id, ifc_type, tokens), or the parse error.
parse_entity(line) ==
    Bind(HashId(line, ws(line, 0)), LAMBDA id :
    IF ~id.ok THEN ParseFail
    ELSE
    Bind(ws(line, id.rest), LAMBDA eq :
    IF ~IsChar(line, eq, "=") THEN ParseFail
    ELSE
    Bind(ws(line, eq + 1), LAMBDA type_start :
    Bind(TakeWhile(line, type_start, NameChars), LAMBDA type_end :
    IF type_end = type_start THEN ParseFail
    ELSE
    Bind(ws(line, type_end), LAMBDA open :
    IF ~IsChar(line, open, "(") THEN ParseFail
    ELSE
    Bind(separated_list0(line, open + 1), LAMBDA args :
    IF ~IsChar(line, args.rest, ")") THEN ParseFail
    ELSE IF ~IsChar(line, ws(line, args.rest + 1), ";") THEN ParseFail
    ELSE [ok |-> TRUE,
          id |-> id.val,
          ifc_type |-> IfcTypeFromStr(Slice(line, type_start, type_end)),
          tokens |-> args.val]))))))

(***************************************************************************)
(* AttributeValue and DecodedEntity (core/src/schema_gen.rs)               *)
(***************************************************************************)

\* AttributeValue::from_token: a typed value becomes a list with the type
\* name first; the other tokens keep their variant and value.
RECURSIVE from_token(_)
from_token(t) ==
    CASE t.kind = "List" ->
            [kind |-> "List",
             items |-> [k \in 1..Len(t.items) |-> from_token(t.items[k])]]
      [] t.kind = "TypedValue" ->
            [kind |-> "List",
             items |-> <<[kind |-> "String", s |-> t.type_name]>>
                       \o [k \in 1..Len(t.args) |-> from_token(t.args[k])]]
      [] OTHER -> t

\* AttributeValue::as_entity_ref
as_entity_ref(attr) ==
    IF attr.kind = "EntityRef" THEN [some |-> TRUE, val |-> attr.id] ELSE None

\* as_list taking an attribute that is no list for an empty list.
as_list_OrEmpty(attr) ==
    IF attr.kind = "List" THEN [some |-> TRUE, val |-> attr.items]
    ELSE [some |-> TRUE, val |-> <<>>]

\* AttributeValue::as_list
as_list(attr) ==
    IF attr.kind = "List" THEN [some |-> TRUE, val |-> attr.items] ELSE None

\* AttributeValue::is_null
is_null(attr) == attr.kind \in {"Null", "Derived"}

\* DecodedEntity::new
DecodedEntityNew(id, ifc_type, attributes) ==
    [id |-> id, ifc_type |-> ifc_type, attributes |-> attributes]

(***************************************************************************)
(* The entity index and EntityDecoder (core/src/decoder.rs)                *)
(***************************************************************************)

\* parse_u32_inline: the wrapping value of bytes[start..end], no digit check.
RECURSIVE parse_u32_inline_from(_, _, _, _)
parse_u32_inline_from(b, i, end, result) ==
    IF i >= end THEN result
    ELSE parse_u32_inline_from(b, i + 1, end,
                               WrappingMul10Add(result, WrappingSubZero(At(b, i))))

parse_u32_inline(b, start, end) == parse_u32_inline_from(b, start, end, 0)

\* index.insert that keeps the entry an id already has.
IndexInsert_KeepFirst(index, id, range) ==
    [x \in DOMAIN index \cup {id} |-> IF x \in DOMAIN index THEN index[x] ELSE range]

\* index.insert(id, range): a later insert of the same id replaces the range.
IndexInsert(index, id, range) ==
    [x \in DOMAIN index \cup {id} |-> IF x = id THEN range ELSE index[x]]

\* One turn of the loop of build_entity_index with the cursor at pos: the loop
\* ends (no '#' left, or no ';' after an id and its '='), goes on after the
\* digits of a '#' that no '=' follows, or inserts the id with its range and
\* goes on after the ';'.
IndexStep(b, pos) ==
    Bind(Memchr("#", b, pos), LAMBDA start :
    IF pos >= Len(b) \/ start = -1 THEN [kind |-> "break"]
    ELSE
    Bind(SkipDigits(b, start + 1, Len(b)), LAMBDA id_end :
    IF ~(id_end > start + 1 /\ id_end < Len(b) /\ At(b, id_end) = "=")
    THEN [kind |-> "continue", pos |-> id_end]
    ELSE
    Bind(Memchr(";", b, id_end), LAMBDA semi :
    IF semi = -1 THEN [kind |-> "break"]
    ELSE [kind |-> "insert", pos |-> semi + 1,
          id |-> parse_u32_inline(b, start + 1, id_end),
          range |-> <<start, semi + 1>>])))

\* The index after a turn of the loop: an insert replaces the id's range.
IndexAfter(index, step) ==
    IF step.kind = "insert" THEN IndexInsert(index, step.id, step.range) ELSE index

\* The loop of build_entity_index from offset pos on.  (The test of the
\* index's size, which never fails, has the index computed at every turn
\* instead of as one nested expression at the end.)
RECURSIVE build_entity_index_from(_, _, _)
build_entity_index_from(b, pos, index) ==
    LET step == IndexStep(b, pos) IN
    IF step.kind = "break" \/ Cardinality(DOMAIN index) > Len(b) THEN index
    ELSE build_entity_index_from(b, step.pos, IndexAfter(index, step))

\* build_entity_index: entity id -> (start, end)
build_entity_index(b) == build_entity_index_from(b, 0, <<>>)

\* Error::parse(0, message)
ErrorParse(message) ==
    [ok |-> FALSE, kind |-> "ParseError", position |-> 0, message |-> message]

\* Ok(value)
Ok(value) == [ok |-> TRUE, val |-> value]

\* A decoder is [cache, entity_index]; an operation returns what the call
\* returns (ret) and the decoder it leaves (dec).
DecoderNew == [cache |-> <<>>, entity_index |-> None]

\* EntityDecoder::with_index
DecoderWithIndex(index) ==
    [cache |-> <<>>, entity_index |-> [some |-> TRUE, val |-> index]]

\* EntityDecoder::build_index
build_index(dec, b) ==
    IF dec.entity_index.some THEN dec
    ELSE [dec EXCEPT !.entity_index = [some |-> TRUE, val |-> build_entity_index(b)]]

\* self.cache.insert(id, entity)
CacheInsert(entries, id, entity) ==
    [x \in DOMAIN entries \cup {id} |-> IF x = id THEN entity ELSE entries[x]]

(***************************************************************************)
(* The buffers the decoders, the router and the processors are run on      *)
(***************************************************************************)

\* Every attribute variant, lists of references and a reference to an id the
\* buffer does not define.
\*   #1=IFCWALL('a',#2,(#2,$,#3,7),.T.,2.5,*);#2=IFCSLAB($,7);#3=X((#1,#9),IFCBOOLEAN(.F.));
BufferAttributes ==
    <<"#", "1", "=", "I", "F", "C", "W", "A", "L", "L", "(", "'", "a", "'",
      ",", "#", "2", ",", "(", "#", "2", ",", "$", ",", "#", "3", ",", "7",
      ")", ",", ".", "T", ".", ",", "2", ".", "5", ",", "*", ")", ";", "#",
      "2", "=", "I", "F", "C", "S", "L", "A", "B", "(", "$", ",", "7", ")",
      ";", "#", "3", "=", "X", "(", "(", "#", "1", ",", "#", "9", ")", ",",
      "I", "F", "C", "B", "O", "O", "L", "E", "A", "N", "(", ".", "F", ".",
      ")", ")", ";">>

\* An id defined twice, both statements well formed.
\*   #1=IFCWALL($);#1=IFCSLAB(*);#2=X(#1);
BufferDuplicate ==
    <<"#", "1", "=", "I", "F", "C", "W", "A", "L", "L", "(", "$", ")", ";",
      "#", "1", "=", "I", "F", "C", "S", "L", "A", "B", "(", "*", ")", ";",
      "#", "2", "=", "X", "(", "#", "1", ")", ";">>

\* An id defined twice, the later statement without an argument list, and a
\* string holding a ';'.
\*   #1=IFCWALL(#2);#2=X('a;b');#1=X;
BufferDuplicateMalformed ==
    <<"#", "1", "=", "I", "F", "C", "W", "A", "L", "L", "(", "#", "2", ")",
      ";", "#", "2", "=", "X", "(", "'", "a", ";", "b", "'", ")", ";", "#",
      "1", "=", "X", ";">>

\* A statement with a blank before its '=' and one whose id passes u32::MAX.
\*   #1 =IFCWALL($);#2=X(#1);#4294967298=X($);
BufferSpacedId ==
    <<"#", "1", " ", "=", "I", "F", "C", "W", "A", "L", "L", "(", "$", ")",
      ";", "#", "2", "=", "X", "(", "#", "1", ")", ";", "#", "4", "2", "9",
      "4", "9", "6", "7", "2", "9", "8", "=", "X", "(", "$", ")", ";">>

DecoderBuffers ==
    {BufferAttributes, BufferDuplicate, BufferDuplicateMalformed, BufferSpacedId}

\* Elements whose representation items are a face set, a face set after which
\* comes an item of a type without geometry, a face set without coordinates,
\* a face set with a zero index, and an element without representation.
\*   #1=IFCWALL('g',$,$,$,$,#50,#10,$);
\*   #2=IFCWALL('g',$,$,$,$,$,#11,$);
\*   #3=IFCWALL('g',$,$,$,$,$,#12,$);
\*   #4=IFCWALL('g',$,$,$,$,$,#13,$);
\*   #5=IFCWALL('g',$,$,$,$,$,$,$);
\*   #10=IFCPRODUCTDEFINITIONSHAPE($,$,(#20,#24));
\*   #11=IFCPRODUCTDEFINITIONSHAPE($,$,(#21));
\*   #12=IFCPRODUCTDEFINITIONSHAPE($,$,(#22));
\*   #13=IFCPRODUCTDEFINITIONSHAPE($,$,(#23));
\*   #20=IFCSHAPEREPRESENTATION($,$,'Body',(#30,#30));
\*   #21=IFCSHAPEREPRESENTATION($,$,'Body',(#30,#31,#30));
\*   #22=IFCSHAPEREPRESENTATION($,$,'Tessellation',(#30,#32));
\*   #23=IFCSHAPEREPRESENTATION($,$,'Body',(#33));
\*   #24=IFCSHAPEREPRESENTATION($,$,'Axis',(#31));
\*   #30=IFCTRIANGULATEDFACESET(#40,$,$,((1,2,3)));
\*   #31=IFCPOLYLINE(());
\*   #32=IFCTRIANGULATEDFACESET($,$,$,((1,2,3)));
\*   #33=IFCTRIANGULATEDFACESET(#40,$,$,((0,1,2)));
\*   #40=IFCCARTESIANPOINTLIST3D(((0.,0.,0.),(1.,0.,0.),(0.,1.,0.)));
\*   #50=IFCLOCALPLACEMENT($,#51);
\*   #51=IFCAXIS2PLACEMENT3D(#52,$,$);
\*   #52=IFCCARTESIANPOINT((1.,2.,3.));
BufferItems ==
    <<"#", "1", "=", "I", "F", "C", "W", "A", "L", "L", "(", "'", "g", "'", ",",
      "$", ",", "$", ",", "$", ",", "$", ",", "#", "5", "0", ",", "#", "1", "0",
      ",", "$", ")", ";", "#", "2", "=", "I", "F", "C", "W", "A", "L", "L", "(",
      "'", "g", "'", ",", "$", ",", "$", ",", "$", ",", "$", ",", "$", ",", "#",
      "1", "1", ",", "$", ")", ";", "#", "3", "=", "I", "F", "C", "W", "A", "L",
      "L", "(", "'", "g", "'", ",", "$", ",", "$", ",", "$", ",", "$", ",", "$",
      ",", "#", "1", "2", ",", "$", ")", ";", "#", "4", "=", "I", "F", "C", "W",
      "A", "L", "L", "(", "'", "g", "'", ",", "$", ",", "$", ",", "$", ",", "$",
      ",", "$", ",", "#", "1", "3", ",", "$", ")", ";", "#", "5", "=", "I", "F",
      "C", "W", "A", "L", "L", "(", "'", "g", "'", ",", "$", ",", "$", ",", "$",
      ",", "$", ",", "$", ",", "$", ",", "$", ")", ";", "#", "1", "0", "=", "I",
      "F", "C", "P", "R", "O", "D", "U", "C", "T", "D", "E", "F", "I", "N", "I",
      "T", "I", "O", "N", "S", "H", "A", "P", "E", "(", "$", ",", "$", ",", "(",
      "#", "2", "0", ",", "#", "2", "4", ")", ")", ";", "#", "1", "1", "=", "I",
      "F", "C", "P", "R", "O", "D", "U", "C", "T", "D", "E", "F", "I", "N", "I",
      "T", "I", "O", "N", "S", "H", "A", "P", "E", "(", "$", ",", "$", ",", "(",
      "#", "2", "1", ")", ")", ";", "#", "1", "2", "=", "I", "F", "C", "P", "R",
      "O", "D", "U", "C", "T", "D", "E", "F", "I", "N", "I", "T", "I", "O", "N",
      "S", "H", "A", "P", "E", "(", "$", ",", "$", ",", "(", "#", "2", "2", ")",
      ")", ";", "#", "1", "3", "=", "I", "F", "C", "P", "R", "O", "D", "U", "C",
      "T", "D", "E", "F", "I", "N", "I", "T", "I", "O", "N", "S", "H", "A", "P",
      "E", "(", "$", ",", "$", ",", "(", "#", "2", "3", ")", ")", ";", "#", "2",
      "0", "=", "I", "F", "C", "S", "H", "A", "P", "E", "R", "E", "P", "R", "E",
      "S", "E", "N", "T", "A", "T", "I", "O", "N", "(", "$", ",", "$", ",", "'",
      "B", "o", "d", "y", "'", ",", "(", "#", "3", "0", ",", "#", "3", "0", ")",
      ")", ";", "#", "2", "1", "=", "I", "F", "C", "S", "H", "A", "P", "E", "R",
      "E", "P", "R", "E", "S", "E", "N", "T", "A", "T", "I", "O", "N", "(", "$",
      ",", "$", ",", "'", "B", "o", "d", "y", "'", ",", "(", "#", "3", "0", ",",
      "#", "3", "1", ",", "#", "3", "0", ")", ")", ";", "#", "2", "2", "=", "I",
      "F", "C", "S", "H", "A", "P", "E", "R", "E", "P", "R", "E", "S", "E", "N",
      "T", "A", "T", "I", "O", "N", "(", "$", ",", "$", ",", "'", "T", "e", "s",
      "s", "e", "l", "l", "a", "t", "i", "o", "n", "'", ",", "(", "#", "3", "0",
      ",", "#", "3", "2", ")", ")", ";", "#", "2", "3", "=", "I", "F", "C", "S",
      "H", "A", "P", "E", "R", "E", "P", "R", "E", "S", "E", "N", "T", "A", "T",
      "I", "O", "N", "(", "$", ",", "$", ",", "'", "B", "o", "d", "y", "'", ",",
      "(", "#", "3", "3", ")", ")", ";", "#", "2", "4", "=", "I", "F", "C", "S",
      "H", "A", "P", "E", "R", "E", "P", "R", "E", "S", "E", "N", "T", "A", "T",
      "I", "O", "N", "(", "$", ",", "$", ",", "'", "A", "x", "i", "s", "'", ",",
      "(", "#", "3", "1", ")", ")", ";", "#", "3", "0", "=", "I", "F", "C", "T",
      "R", "I", "A", "N", "G", "U", "L", "A", "T", "E", "D", "F", "A", "C", "E",
      "S", "E", "T", "(", "#", "4", "0", ",", "$", ",", "$", ",", "(", "(", "1",
      ",", "2", ",", "3", ")", ")", ")", ";", "#", "3", "1", "=", "I", "F", "C",
      "P", "O", "L", "Y", "L", "I", "N", "E", "(", "(", ")", ")", ";", "#", "3",
      "2", "=", "I", "F", "C", "T", "R", "I", "A", "N", "G", "U", "L", "A", "T",
      "E", "D", "F", "A", "C", "E", "S", "E", "T", "(", "$", ",", "$", ",", "$",
      ",", "(", "(", "1", ",", "2", ",", "3", ")", ")", ")", ";", "#", "3", "3",
      "=", "I", "F", "C", "T", "R", "I", "A", "N", "G", "U", "L", "A", "T", "E",
      "D", "F", "A", "C", "E", "S", "E", "T", "(", "#", "4", "0", ",", "$", ",",
      "$", ",", "(", "(", "0", ",", "1", ",", "2", ")", ")", ")", ";", "#", "4",
      "0", "=", "I", "F", "C", "C", "A", "R", "T", "E", "S", "I", "A", "N", "P",
      "O", "I", "N", "T", "L", "I", "S", "T", "3", "D", "(", "(", "(", "0", ".",
      ",", "0", ".", ",", "0", ".", ")", ",", "(", "1", ".", ",", "0", ".", ",",
      "0", ".", ")", ",", "(", "0", ".", ",", "1", ".", ",", "0", ".", ")", ")",
      ")", ";", "#", "5", "0", "=", "I", "F", "C", "L", "O", "C", "A", "L", "P",
      "L", "A", "C", "E", "M", "E", "N", "T", "(", "$", ",", "#", "5", "1", ")",
      ";", "#", "5", "1", "=", "I", "F", "C", "A", "X", "I", "S", "2", "P", "L",
      "A", "C", "E", "M", "E", "N", "T", "3", "D", "(", "#", "5", "2", ",", "$",
      ",", "$", ")", ";", "#", "5", "2", "=", "I", "F", "C", "C", "A", "R", "T",
      "E", "S", "I", "A", "N", "P", "O", "I", "N", "T", "(", "(", "1", ".", ",",
      "2", ".", ",", "3", ".", ")", ")", ";">>

\* Elements placed by a placement that is its own parent, by two placements
\* that are each other's parent, and by a chain of placements that ends.
\*   #1=IFCWALL('g',$,$,$,$,#2,#10,$);
\*   #3=IFCWALL('g',$,$,$,$,#4,#10,$);
\*   #6=IFCWALL('g',$,$,$,$,#7,#10,$);
\*   #2=IFCLOCALPLACEMENT(#2,$);
\*   #4=IFCLOCALPLACEMENT(#5,$);
\*   #5=IFCLOCALPLACEMENT(#4,$);
\*   #7=IFCLOCALPLACEMENT(#8,#9);
\*   #8=IFCLOCALPLACEMENT($,#9);
\*   #9=IFCAXIS2PLACEMENT3D(#12,#13,$);
\*   #12=IFCCARTESIANPOINT((1.,2.,3.));
\*   #13=IFCDIRECTION((0.,1.,0.));
\*   #10=IFCPRODUCTDEFINITIONSHAPE($,$,());
BufferPlacements ==
    <<"#", "1", "=", "I", "F", "C", "W", "A", "L", "L", "(", "'", "g", "'", ",",
      "$", ",", "$", ",", "$", ",", "$", ",", "#", "2", ",", "#", "1", "0", ",",
      "$", ")", ";", "#", "3", "=", "I", "F", "C", "W", "A", "L", "L", "(", "'",
      "g", "'", ",", "$", ",", "$", ",", "$", ",", "$", ",", "#", "4", ",", "#",
      "1", "0", ",", "$", ")", ";", "#", "6", "=", "I", "F", "C", "W", "A", "L",
      "L", "(", "'", "g", "'", ",", "$", ",", "$", ",", "$", ",", "$", ",", "#",
      "7", ",", "#", "1", "0", ",", "$", ")", ";", "#", "2", "=", "I", "F", "C",
      "L", "O", "C", "A", "L", "P", "L", "A", "C", "E", "M", "E", "N", "T", "(",
      "#", "2", ",", "$", ")", ";", "#", "4", "=", "I", "F", "C", "L", "O", "C",
      "A", "L", "P", "L", "A", "C", "E", "M", "E", "N", "T", "(", "#", "5", ",",
      "$", ")", ";", "#", "5", "=", "I", "F", "C", "L", "O", "C", "A", "L", "P",
      "L", "A", "C", "E", "M", "E", "N", "T", "(", "#", "4", ",", "$", ")", ";",
      "#", "7", "=", "I", "F", "C", "L", "O", "C", "A", "L", "P", "L", "A", "C",
      "E", "M", "E", "N", "T", "(", "#", "8", ",", "#", "9", ")", ";", "#", "8",
      "=", "I", "F", "C", "L", "O", "C", "A", "L", "P", "L", "A", "C", "E", "M",
      "E", "N", "T", "(", "$", ",", "#", "9", ")", ";", "#", "9", "=", "I", "F",
      "C", "A", "X", "I", "S", "2", "P", "L", "A", "C", "E", "M", "E", "N", "T",
      "3", "D", "(", "#", "1", "2", ",", "#", "1", "3", ",", "$", ")", ";", "#",
      "1", "2", "=", "I", "F", "C", "C", "A", "R", "T", "E", "S", "I", "A", "N",
      "P", "O", "I", "N", "T", "(", "(", "1", ".", ",", "2", ".", ",", "3", ".",
      ")", ")", ";", "#", "1", "3", "=", "I", "F", "C", "D", "I", "R", "E", "C",
      "T", "I", "O", "N", "(", "(", "0", ".", ",", "1", ".", ",", "0", ".", ")",
      ")", ";", "#", "1", "0", "=", "I", "F", "C", "P", "R", "O", "D", "U", "C",
      "T", "D", "E", "F", "I", "N", "I", "T", "I", "O", "N", "S", "H", "A", "P",
      "E", "(", "$", ",", "$", ",", "(", ")", ")", ";">>

\* Elements whose item is a clipping result that is its own first operand,
\* a chain of clipping results that ends in a face set, a mapped item over
\* that chain, and a mapped item over the cyclic clipping result.
\*   #1=IFCWALL('g',$,$,$,$,$,#10,$);
\*   #2=IFCWALL('g',$,$,$,$,$,#11,$);
\*   #3=IFCWALL('g',$,$,$,$,$,#12,$);
\*   #4=IFCWALL('g',$,$,$,$,$,#13,$);
\*   #10=IFCPRODUCTDEFINITIONSHAPE($,$,(#20));
\*   #11=IFCPRODUCTDEFINITIONSHAPE($,$,(#21));
\*   #12=IFCPRODUCTDEFINITIONSHAPE($,$,(#22));
\*   #13=IFCPRODUCTDEFINITIONSHAPE($,$,(#23));
\*   #20=IFCSHAPEREPRESENTATION($,$,'Clipping',(#30));
\*   #21=IFCSHAPEREPRESENTATION($,$,'Clipping',(#31));
\*   #22=IFCSHAPEREPRESENTATION($,$,'MappedRepresentation',(#34));
\*   #23=IFCSHAPEREPRESENTATION($,$,'MappedRepresentation',(#37));
\*   #30=IFCBOOLEANCLIPPINGRESULT(.DIFFERENCE.,#30,$);
\*   #31=IFCBOOLEANCLIPPINGRESULT(.DIFFERENCE.,#32,$);
\*   #32=IFCBOOLEANCLIPPINGRESULT(.DIFFERENCE.,#33,$);
\*   #33=IFCTRIANGULATEDFACESET(#40,$,$,((1,2,3)));
\*   #34=IFCMAPPEDITEM(#35,$);
\*   #35=IFCREPRESENTATIONMAP($,#36);
\*   #36=IFCSHAPEREPRESENTATION($,$,'Body',(#33,#31,#39));
\*   #37=IFCMAPPEDITEM(#38,$);
\*   #38=IFCREPRESENTATIONMAP($,#20);
\*   #39=IFCPOLYGONALFACESET($);
\*   #40=IFCCARTESIANPOINTLIST3D(((0.,0.,0.),(1.,0.,0.),(0.,1.,0.)));
BufferBooleans ==
    <<"#", "1", "=", "I", "F", "C", "W", "A", "L", "L", "(", "'", "g", "'", ",",
      "$", ",", "$", ",", "$", ",", "$", ",", "$", ",", "#", "1", "0", ",", "$",
      ")", ";", "#", "2", "=", "I", "F", "C", "W", "A", "L", "L", "(", "'", "g",
      "'", ",", "$", ",", "$", ",", "$", ",", "$", ",", "$", ",", "#", "1", "1",
      ",", "$", ")", ";", "#", "3", "=", "I", "F", "C", "W", "A", "L", "L", "(",
      "'", "g", "'", ",", "$", ",", "$", ",", "$", ",", "$", ",", "$", ",", "#",
      "1", "2", ",", "$", ")", ";", "#", "4", "=", "I", "F", "C", "W", "A", "L",
      "L", "(", "'", "g", "'", ",", "$", ",", "$", ",", "$", ",", "$", ",", "$",
      ",", "#", "1", "3", ",", "$", ")", ";", "#", "1", "0", "=", "I", "F", "C",
      "P", "R", "O", "D", "U", "C", "T", "D", "E", "F", "I", "N", "I", "T", "I",
      "O", "N", "S", "H", "A", "P", "E", "(", "$", ",", "$", ",", "(", "#", "2",
      "0", ")", ")", ";", "#", "1", "1", "=", "I", "F", "C", "P", "R", "O", "D",
      "U", "C", "T", "D", "E", "F", "I", "N", "I", "T", "I", "O", "N", "S", "H",
      "A", "P", "E", "(", "$", ",", "$", ",", "(", "#", "2", "1", ")", ")", ";",
      "#", "1", "2", "=", "I", "F", "C", "P", "R", "O", "D", "U", "C", "T", "D",
      "E", "F", "I", "N", "I", "T", "I", "O", "N", "S", "H", "A", "P", "E", "(",
      "$", ",", "$", ",", "(", "#", "2", "2", ")", ")", ";", "#", "1", "3", "=",
      "I", "F", "C", "P", "R", "O", "D", "U", "C", "T", "D", "E", "F", "I", "N",
      "I", "T", "I", "O", "N", "S", "H", "A", "P", "E", "(", "$", ",", "$", ",",
      "(", "#", "2", "3", ")", ")", ";", "#", "2", "0", "=", "I", "F", "C", "S",
      "H", "A", "P", "E", "R", "E", "P", "R", "E", "S", "E", "N", "T", "A", "T",
      "I", "O", "N", "(", "$", ",", "$", ",", "'", "C", "l", "i", "p", "p", "i",
      "n", "g", "'", ",", "(", "#", "3", "0", ")", ")", ";", "#", "2", "1", "=",
      "I", "F", "C", "S", "H", "A", "P", "E", "R", "E", "P", "R", "E", "S", "E",
      "N", "T", "A", "T", "I", "O", "N", "(", "$", ",", "$", ",", "'", "C", "l",
      "i", "p", "p", "i", "n", "g", "'", ",", "(", "#", "3", "1", ")", ")", ";",
      "#", "2", "2", "=", "I", "F", "C", "S", "H", "A", "P", "E", "R", "E", "P",
      "R", "E", "S", "E", "N", "T", "A", "T", "I", "O", "N", "(", "$", ",", "$",
      ",", "'", "M", "a", "p", "p", "e", "d", "R", "e", "p", "r", "e", "s", "e",
      "n", "t", "a", "t", "i", "o", "n", "'", ",", "(", "#", "3", "4", ")", ")",
      ";", "#", "2", "3", "=", "I", "F", "C", "S", "H", "A", "P", "E", "R", "E",
      "P", "R", "E", "S", "E", "N", "T", "A", "T", "I", "O", "N", "(", "$", ",",
      "$", ",", "'", "M", "a", "p", "p", "e", "d", "R", "e", "p", "r", "e", "s",
      "e", "n", "t", "a", "t", "i", "o", "n", "'", ",", "(", "#", "3", "7", ")",
      ")", ";", "#", "3", "0", "=", "I", "F", "C", "B", "O", "O", "L", "E", "A",
      "N", "C", "L", "I", "P", "P", "I", "N", "G", "R", "E", "S", "U", "L", "T",
      "(", ".", "D", "I", "F", "F", "E", "R", "E", "N", "C", "E", ".", ",", "#",
      "3", "0", ",", "$", ")", ";", "#", "3", "1", "=", "I", "F", "C", "B", "O",
      "O", "L", "E", "A", "N", "C", "L", "I", "P", "P", "I", "N", "G", "R", "E",
      "S", "U", "L", "T", "(", ".", "D", "I", "F", "F", "E", "R", "E", "N", "C",
      "E", ".", ",", "#", "3", "2", ",", "$", ")", ";", "#", "3", "2", "=", "I",
      "F", "C", "B", "O", "O", "L", "E", "A", "N", "C", "L", "I", "P", "P", "I",
      "N", "G", "R", "E", "S", "U", "L", "T", "(", ".", "D", "I", "F", "F", "E",
      "R", "E", "N", "C", "E", ".", ",", "#", "3", "3", ",", "$", ")", ";", "#",
      "3", "3", "=", "I", "F", "C", "T", "R", "I", "A", "N", "G", "U", "L", "A",
      "T", "E", "D", "F", "A", "C", "E", "S", "E", "T", "(", "#", "4", "0", ",",
      "$", ",", "$", ",", "(", "(", "1", ",", "2", ",", "3", ")", ")", ")", ";",
      "#", "3", "4", "=", "I", "F", "C", "M", "A", "P", "P", "E", "D", "I", "T",
      "E", "M", "(", "#", "3", "5", ",", "$", ")", ";", "#", "3", "5", "=", "I",
      "F", "C", "R", "E", "P", "R", "E", "S", "E", "N", "T", "A", "T", "I", "O",
      "N", "M", "A", "P", "(", "$", ",", "#", "3", "6", ")", ";", "#", "3", "6",
      "=", "I", "F", "C", "S", "H", "A", "P", "E", "R", "E", "P", "R", "E", "S",
      "E", "N", "T", "A", "T", "I", "O", "N", "(", "$", ",", "$", ",", "'", "B",
      "o", "d", "y", "'", ",", "(", "#", "3", "3", ",", "#", "3", "1", ",", "#",
      "3", "9", ")", ")", ";", "#", "3", "7", "=", "I", "F", "C", "M", "A", "P",
      "P", "E", "D", "I", "T", "E", "M", "(", "#", "3", "8", ",", "$", ")", ";",
      "#", "3", "8", "=", "I", "F", "C", "R", "E", "P", "R", "E", "S", "E", "N",
      "T", "A", "T", "I", "O", "N", "M", "A", "P", "(", "$", ",", "#", "2", "0",
      ")", ";", "#", "3", "9", "=", "I", "F", "C", "P", "O", "L", "Y", "G", "O",
      "N", "A", "L", "F", "A", "C", "E", "S", "E", "T", "(", "$", ")", ";", "#",
      "4", "0", "=", "I", "F", "C", "C", "A", "R", "T", "E", "S", "I", "A", "N",
      "P", "O", "I", "N", "T", "L", "I", "S", "T", "3", "D", "(", "(", "(", "0",
      ".", ",", "0", ".", ",", "0", ".", ")", ",", "(", "1", ".", ",", "0", ".",
      ",", "0", ".", ")", ",", "(", "0", ".", ",", "1", ".", ",", "0", ".", ")",
      ")", ")", ";">>

\* The buffers the router is run on.
\* Elements with shape representations of every kind: types process_element
\* keeps and types it skips, a type that is null, a type that is an enum, and
\* a representation that is no IfcShapeRepresentation.  The face sets #31 and
\* #32 differ in their vertex and triangle counts.
\*   #1=IFCWALL('g',$,$,$,$,$,#10,$);
\*   #2=IFCWALL('g',$,$,$,$,$,#11,$);
\*   #3=IFCWALL('g',$,$,$,$,$,#12,$);
\*   #10=IFCPRODUCTDEFINITIONSHAPE($,$,(#20,#21,#22,#23,#24,#27));
\*   #11=IFCPRODUCTDEFINITIONSHAPE($,$,(#25));
\*   #12=IFCPRODUCTDEFINITIONSHAPE($,$,(#26));
\*   #20=IFCSHAPEREPRESENTATION($,$,'Axis',(#30));
\*   #21=IFCSHAPEREPRESENTATION($,$,'Body',(#31,#32));
\*   #22=IFCSHAPEREPRESENTATION($,$,'Curve2D',(#30));
\*   #23=IFCSHAPEREPRESENTATION($,$,'FootPrint',(#30));
\*   #24=IFCSHAPEREPRESENTATION($,$,'Tessellation',(#32,#32));
\*   #25=IFCSHAPEREPRESENTATION($,$,$,(#33));
\*   #26=IFCSHAPEREPRESENTATION($,$,.BODY.,(#34));
\*   #27=IFCTOPOLOGYREPRESENTATION($,$,'Body',(#30));
\*   #30=IFCTRIANGULATEDFACESET(#40,$,$,((1,2,3)));
\*   #31=IFCTRIANGULATEDFACESET(#40,$,$,((1,2,3)));
\*   #32=IFCTRIANGULATEDFACESET(#41,$,$,((1,2,3),(1,3,4)));
\*   #33=IFCTRIANGULATEDFACESET(#40,$,$,((1,2,3)));
\*   #34=IFCTRIANGULATEDFACESET(#40,$,$,((1,2,3)));
\*   #40=IFCCARTESIANPOINTLIST3D(((0.,0.,0.),(1.,0.,0.),(0.,1.,0.)));
\*   #41=IFCCARTESIANPOINTLIST3D(((0.,0.,2.),(1.,0.,2.),(1.,1.,2.),(0.,1.,2.)));
BufferRepresentations ==
    <<"#", "1", "=", "I", "F", "C", "W", "A", "L", "L", "(", "'", "g", "'", ",",
      "$", ",", "$", ",", "$", ",", "$", ",", "$", ",", "#", "1", "0", ",", "$",
      ")", ";", "#", "2", "=", "I", "F", "C", "W", "A", "L", "L", "(", "'", "g",
      "'", ",", "$", ",", "$", ",", "$", ",", "$", ",", "$", ",", "#", "1", "1",
      ",", "$", ")", ";", "#", "3", "=", "I", "F", "C", "W", "A", "L", "L", "(",
      "'", "g", "'", ",", "$", ",", "$", ",", "$", ",", "$", ",", "$", ",", "#",
      "1", "2", ",", "$", ")", ";", "#", "1", "0", "=", "I", "F", "C", "P", "R",
      "O", "D", "U", "C", "T", "D", "E", "F", "I", "N", "I", "T", "I", "O", "N",
      "S", "H", "A", "P", "E", "(", "$", ",", "$", ",", "(", "#", "2", "0", ",",
      "#", "2", "1", ",", "#", "2", "2", ",", "#", "2", "3", ",", "#", "2", "4",
      ",", "#", "2", "7", ")", ")", ";", "#", "1", "1", "=", "I", "F", "C", "P",
      "R", "O", "D", "U", "C", "T", "D", "E", "F", "I", "N", "I", "T", "I", "O",
      "N", "S", "H", "A", "P", "E", "(", "$", ",", "$", ",", "(", "#", "2", "5",
      ")", ")", ";", "#", "1", "2", "=", "I", "F", "C", "P", "R", "O", "D", "U",
      "C", "T", "D", "E", "F", "I", "N", "I", "T", "I", "O", "N", "S", "H", "A",
      "P", "E", "(", "$", ",", "$", ",", "(", "#", "2", "6", ")", ")", ";", "#",
      "2", "0", "=", "I", "F", "C", "S", "H", "A", "P", "E", "R", "E", "P", "R",
      "E", "S", "E", "N", "T", "A", "T", "I", "O", "N", "(", "$", ",", "$", ",",
      "'", "A", "x", "i", "s", "'", ",", "(", "#", "3", "0", ")", ")", ";", "#",
      "2", "1", "=", "I", "F", "C", "S", "H", "A", "P", "E", "R", "E", "P", "R",
      "E", "S", "E", "N", "T", "A", "T", "I", "O", "N", "(", "$", ",", "$", ",",
      "'", "B", "o", "d", "y", "'", ",", "(", "#", "3", "1", ",", "#", "3", "2",
      ")", ")", ";", "#", "2", "2", "=", "I", "F", "C", "S", "H", "A", "P", "E",
      "R", "E", "P", "R", "E", "S", "E", "N", "T", "A", "T", "I", "O", "N", "(",
      "$", ",", "$", ",", "'", "C", "u", "r", "v", "e", "2", "D", "'", ",", "(",
      "#", "3", "0", ")", ")", ";", "#", "2", "3", "=", "I", "F", "C", "S", "H",
      "A", "P", "E", "R", "E", "P", "R", "E", "S", "E", "N", "T", "A", "T", "I",
      "O", "N", "(", "$", ",", "$", ",", "'", "F", "o", "o", "t", "P", "r", "i",
      "n", "t", "'", ",", "(", "#", "3", "0", ")", ")", ";", "#", "2", "4", "=",
      "I", "F", "C", "S", "H", "A", "P", "E", "R", "E", "P", "R", "E", "S", "E",
      "N", "T", "A", "T", "I", "O", "N", "(", "$", ",", "$", ",", "'", "T", "e",
      "s", "s", "e", "l", "l", "a", "t", "i", "o", "n", "'", ",", "(", "#", "3",
      "2", ",", "#", "3", "2", ")", ")", ";", "#", "2", "5", "=", "I", "F", "C",
      "S", "H", "A", "P", "E", "R", "E", "P", "R", "E", "S", "E", "N", "T", "A",
      "T", "I", "O", "N", "(", "$", ",", "$", ",", "$", ",", "(", "#", "3", "3",
      ")", ")", ";", "#", "2", "6", "=", "I", "F", "C", "S", "H", "A", "P", "E",
      "R", "E", "P", "R", "E", "S", "E", "N", "T", "A", "T", "I", "O", "N", "(",
      "$", ",", "$", ",", ".", "B", "O", "D", "Y", ".", ",", "(", "#", "3", "4",
      ")", ")", ";", "#", "2", "7", "=", "I", "F", "C", "T", "O", "P", "O", "L",
      "O", "G", "Y", "R", "E", "P", "R", "E", "S", "E", "N", "T", "A", "T", "I",
      "O", "N", "(", "$", ",", "$", ",", "'", "B", "o", "d", "y", "'", ",", "(",
      "#", "3", "0", ")", ")", ";", "#", "3", "0", "=", "I", "F", "C", "T", "R",
      "I", "A", "N", "G", "U", "L", "A", "T", "E", "D", "F", "A", "C", "E", "S",
      "E", "T", "(", "#", "4", "0", ",", "$", ",", "$", ",", "(", "(", "1", ",",
      "2", ",", "3", ")", ")", ")", ";", "#", "3", "1", "=", "I", "F", "C", "T",
      "R", "I", "A", "N", "G", "U", "L", "A", "T", "E", "D", "F", "A", "C", "E",
      "S", "E", "T", "(", "#", "4", "0", ",", "$", ",", "$", ",", "(", "(", "1",
      ",", "2", ",", "3", ")", ")", ")", ";", "#", "3", "2", "=", "I", "F", "C",
      "T", "R", "I", "A", "N", "G", "U", "L", "A", "T", "E", "D", "F", "A", "C",
      "E", "S", "E", "T", "(", "#", "4", "1", ",", "$", ",", "$", ",", "(", "(",
      "1", ",", "2", ",", "3", ")", ",", "(", "1", ",", "3", ",", "4", ")", ")",
      ")", ";", "#", "3", "3", "=", "I", "F", "C", "T", "R", "I", "A", "N", "G",
      "U", "L", "A", "T", "E", "D", "F", "A", "C", "E", "S", "E", "T", "(", "#",
      "4", "0", ",", "$", ",", "$", ",", "(", "(", "1", ",", "2", ",", "3", ")",
      ")", ")", ";", "#", "3", "4", "=", "I", "F", "C", "T", "R", "I", "A", "N",
      "G", "U", "L", "A", "T", "E", "D", "F", "A", "C", "E", "S", "E", "T", "(",
      "#", "4", "0", ",", "$", ",", "$", ",", "(", "(", "1", ",", "2", ",", "3",
      ")", ")", ")", ";", "#", "4", "0", "=", "I", "F", "C", "C", "A", "R", "T",
      "E", "S", "I", "A", "N", "P", "O", "I", "N", "T", "L", "I", "S", "T", "3",
      "D", "(", "(", "(", "0", ".", ",", "0", ".", ",", "0", ".", ")", ",", "(",
      "1", ".", ",", "0", ".", ",", "0", ".", ")", ",", "(", "0", ".", ",", "1",
      ".", ",", "0", ".", ")", ")", ")", ";", "#", "4", "1", "=", "I", "F", "C",
      "C", "A", "R", "T", "E", "S", "I", "A", "N", "P", "O", "I", "N", "T", "L",
      "I", "S", "T", "3", "D", "(", "(", "(", "0", ".", ",", "0", ".", ",", "2",
      ".", ")", ",", "(", "1", ".", ",", "0", ".", ",", "2", ".", ")", ",", "(",
      "1", ".", ",", "1", ".", ",", "2", ".", ")", ",", "(", "0", ".", ",", "1",
      ".", ",", "2", ".", ")", ")", ")", ";">>

\* Elements with nothing to process: representations without items, one of
\* them placed by a placement whose parent the buffer does not define, and
\* an element without representation.
\*   #4=IFCWALL('g',$,$,$,$,#50,#13,$);
\*   #5=IFCWALL('g',$,$,$,$,#50,$,$);
\*   #6=IFCWALL('g',$,$,$,$,#60,#13,$);
\*   #13=IFCPRODUCTDEFINITIONSHAPE($,$,(#28,#29));
\*   #28=IFCSHAPEREPRESENTATION($,$,'Body',());
\*   #29=IFCSHAPEREPRESENTATION($,$,'SweptSolid',());
\*   #50=IFCLOCALPLACEMENT($,#51);
\*   #51=IFCAXIS2PLACEMENT3D(#52,$,$);
\*   #52=IFCCARTESIANPOINT((1.,2.,3.));
\*   #60=IFCLOCALPLACEMENT(#99,$);
BufferNoItems ==
    <<"#", "4", "=", "I", "F", "C", "W", "A", "L", "L", "(", "'", "g", "'", ",",
      "$", ",", "$", ",", "$", ",", "$", ",", "#", "5", "0", ",", "#", "1", "3",
      ",", "$", ")", ";", "#", "5", "=", "I", "F", "C", "W", "A", "L", "L", "(",
      "'", "g", "'", ",", "$", ",", "$", ",", "$", ",", "$", ",", "#", "5", "0",
      ",", "$", ",", "$", ")", ";", "#", "6", "=", "I", "F", "C", "W", "A", "L",
      "L", "(", "'", "g", "'", ",", "$", ",", "$", ",", "$", ",", "$", ",", "#",
      "6", "0", ",", "#", "1", "3", ",", "$", ")", ";", "#", "1", "3", "=", "I",
      "F", "C", "P", "R", "O", "D", "U", "C", "T", "D", "E", "F", "I", "N", "I",
      "T", "I", "O", "N", "S", "H", "A", "P", "E", "(", "$", ",", "$", ",", "(",
      "#", "2", "8", ",", "#", "2", "9", ")", ")", ";", "#", "2", "8", "=", "I",
      "F", "C", "S", "H", "A", "P", "E", "R", "E", "P", "R", "E", "S", "E", "N",
      "T", "A", "T", "I", "O", "N", "(", "$", ",", "$", ",", "'", "B", "o", "d",
      "y", "'", ",", "(", ")", ")", ";", "#", "2", "9", "=", "I", "F", "C", "S",
      "H", "A", "P", "E", "R", "E", "P", "R", "E", "S", "E", "N", "T", "A", "T",
      "I", "O", "N", "(", "$", ",", "$", ",", "'", "S", "w", "e", "p", "t", "S",
      "o", "l", "i", "d", "'", ",", "(", ")", ")", ";", "#", "5", "0", "=", "I",
      "F", "C", "L", "O", "C", "A", "L", "P", "L", "A", "C", "E", "M", "E", "N",
      "T", "(", "$", ",", "#", "5", "1", ")", ";", "#", "5", "1", "=", "I", "F",
      "C", "A", "X", "I", "S", "2", "P", "L", "A", "C", "E", "M", "E", "N", "T",
      "3", "D", "(", "#", "5", "2", ",", "$", ",", "$", ")", ";", "#", "5", "2",
      "=", "I", "F", "C", "C", "A", "R", "T", "E", "S", "I", "A", "N", "P", "O",
      "I", "N", "T", "(", "(", "1", ".", ",", "2", ".", ",", "3", ".", ")", ")",
      ";", "#", "6", "0", "=", "I", "F", "C", "L", "O", "C", "A", "L", "P", "L",
      "A", "C", "E", "M", "E", "N", "T", "(", "#", "9", "9", ",", "$", ")", ";">>

RouterBuffers ==
    {BufferItems, BufferPlacements, BufferBooleans, BufferRepresentations,
     BufferNoItems}

\* Clipping results over every kind of FirstOperand, their SecondOperand an
\* id the buffer does not define (#90), a statement that does not parse (#91)
\* or a solid that is nobody's FirstOperand (#20).
\*   #1=IFCBOOLEANCLIPPINGRESULT(.DIFFERENCE.,#10,#90);
\*   #2=IFCBOOLEANCLIPPINGRESULT(.DIFFERENCE.,#11,#91);
\*   #3=IFCBOOLEANCLIPPINGRESULT(.DIFFERENCE.,#12,#20);
\*   #4=IFCBOOLEANCLIPPINGRESULT(.DIFFERENCE.,#13,#90);
\*   #5=IFCBOOLEANCLIPPINGRESULT(.DIFFERENCE.,#1,#20);
\*   #6=IFCBOOLEANCLIPPINGRESULT(.DIFFERENCE.,#14,#91);
\*   #7=IFCBOOLEANCLIPPINGRESULT(.DIFFERENCE.,#15,#90);
\*   #8=IFCBOOLEANCLIPPINGRESULT(.DIFFERENCE.);
\*   #9=IFCBOOLEANCLIPPINGRESULT(.DIFFERENCE.,#90,#20);
\*   #16=IFCBOOLEANCLIPPINGRESULT(.DIFFERENCE.,$,#20);
\*   #10=IFCTRIANGULATEDFACESET(#40,$,$,((1,2,3)));
\*   #11=IFCEXTRUDEDAREASOLID($,$,$,1.);
\*   #12=IFCFACETEDBREP($);
\*   #13=IFCSWEPTDISKSOLID($,1.,$,$,$);
\*   #14=IFCPOLYGONALFACESET($);
\*   #15=IFCWALL($);
\*   #20=IFCEXTRUDEDAREASOLID($,$,$,2.);
\*   #91=IFCEXTRUDEDAREASOLID(;
\*   #40=IFCCARTESIANPOINTLIST3D(((0.,0.,0.),(1.,0.,0.),(0.,1.,0.)));
BufferOperands ==
    <<"#", "1", "=", "I", "F", "C", "B", "O", "O", "L", "E", "A", "N", "C",
      "L", "I", "P", "P", "I", "N", "G", "R", "E", "S", "U", "L", "T", "(",
      ".", "D", "I", "F", "F", "E", "R", "E", "N", "C", "E", ".", ",", "#",
      "1", "0", ",", "#", "9", "0", ")", ";", "#", "2", "=", "I", "F", "C",
      "B", "O", "O", "L", "E", "A", "N", "C", "L", "I", "P", "P", "I", "N",
      "G", "R", "E", "S", "U", "L", "T", "(", ".", "D", "I", "F", "F", "E",
      "R", "E", "N", "C", "E", ".", ",", "#", "1", "1", ",", "#", "9", "1",
      ")", ";", "#", "3", "=", "I", "F", "C", "B", "O", "O", "L", "E", "A",
      "N", "C", "L", "I", "P", "P", "I", "N", "G", "R", "E", "S", "U", "L",
      "T", "(", ".", "D", "I", "F", "F", "E", "R", "E", "N", "C", "E", ".",
      ",", "#", "1", "2", ",", "#", "2", "0", ")", ";", "#", "4", "=", "I",
      "F", "C", "B", "O", "O", "L", "E", "A", "N", "C", "L", "I", "P", "P",
      "I", "N", "G", "R", "E", "S", "U", "L", "T", "(", ".", "D", "I", "F",
      "F", "E", "R", "E", "N", "C", "E", ".", ",", "#", "1", "3", ",", "#",
      "9", "0", ")", ";", "#", "5", "=", "I", "F", "C", "B", "O", "O", "L",
      "E", "A", "N", "C", "L", "I", "P", "P", "I", "N", "G", "R", "E", "S",
      "U", "L", "T", "(", ".", "D", "I", "F", "F", "E", "R", "E", "N", "C",
      "E", ".", ",", "#", "1", ",", "#", "2", "0", ")", ";", "#", "6", "=",
      "I", "F", "C", "B", "O", "O", "L", "E", "A", "N", "C", "L", "I", "P",
      "P", "I", "N", "G", "R", "E", "S", "U", "L", "T", "(", ".", "D", "I",
      "F", "F", "E", "R", "E", "N", "C", "E", ".", ",", "#", "1", "4", ",",
      "#", "9", "1", ")", ";", "#", "7", "=", "I", "F", "C", "B", "O", "O",
      "L", "E", "A", "N", "C", "L", "I", "P", "P", "I", "N", "G", "R", "E",
      "S", "U", "L", "T", "(", ".", "D", "I", "F", "F", "E", "R", "E", "N",
      "C", "E", ".", ",", "#", "1", "5", ",", "#", "9", "0", ")", ";", "#",
      "8", "=", "I", "F", "C", "B", "O", "O", "L", "E", "A", "N", "C", "L",
      "I", "P", "P", "I", "N", "G", "R", "E", "S", "U", "L", "T", "(", ".",
      "D", "I", "F", "F", "E", "R", "E", "N", "C", "E", ".", ")", ";", "#",
      "9", "=", "I", "F", "C", "B", "O", "O", "L", "E", "A", "N", "C", "L",
      "I", "P", "P", "I", "N", "G", "R", "E", "S", "U", "L", "T", "(", ".",
      "D", "I", "F", "F", "E", "R", "E", "N", "C", "E", ".", ",", "#", "9",
      "0", ",", "#", "2", "0", ")", ";", "#", "1", "6", "=", "I", "F", "C",
      "B", "O", "O", "L", "E", "A", "N", "C", "L", "I", "P", "P", "I", "N",
      "G", "R", "E", "S", "U", "L", "T", "(", ".", "D", "I", "F", "F", "E",
      "R", "E", "N", "C", "E", ".", ",", "$", ",", "#", "2", "0", ")", ";",
      "#", "1", "0", "=", "I", "F", "C", "T", "R", "I", "A", "N", "G", "U",
      "L", "A", "T", "E", "D", "F", "A", "C", "E", "S", "E", "T", "(", "#",
      "4", "0", ",", "$", ",", "$", ",", "(", "(", "1", ",", "2", ",", "3",
      ")", ")", ")", ";", "#", "1", "1", "=", "I", "F", "C", "E", "X", "T",
      "R", "U", "D", "E", "D", "A", "R", "E", "A", "S", "O", "L", "I", "D",
      "(", "$", ",", "$", ",", "$", ",", "1", ".", ")", ";", "#", "1", "2",
      "=", "I", "F", "C", "F", "A", "C", "E", "T", "E", "D", "B", "R", "E",
      "P", "(", "$", ")", ";", "#", "1", "3", "=", "I", "F", "C", "S", "W",
      "E", "P", "T", "D", "I", "S", "K", "S", "O", "L", "I", "D", "(", "$",
      ",", "1", ".", ",", "$", ",", "$", ",", "$", ")", ";", "#", "1", "4",
      "=", "I", "F", "C", "P", "O", "L", "Y", "G", "O", "N", "A", "L", "F",
      "A", "C", "E", "S", "E", "T", "(", "$", ")", ";", "#", "1", "5", "=",
      "I", "F", "C", "W", "A", "L", "L", "(", "$", ")", ";", "#", "2", "0",
      "=", "I", "F", "C", "E", "X", "T", "R", "U", "D", "E", "D", "A", "R",
      "E", "A", "S", "O", "L", "I", "D", "(", "$", ",", "$", ",", "$", ",",
      "2", ".", ")", ";", "#", "9", "1", "=", "I", "F", "C", "E", "X", "T",
      "R", "U", "D", "E", "D", "A", "R", "E", "A", "S", "O", "L", "I", "D",
      "(", ";", "#", "4", "0", "=", "I", "F", "C", "C", "A", "R", "T", "E",
      "S", "I", "A", "N", "P", "O", "I", "N", "T", "L", "I", "S", "T", "3",
      "D", "(", "(", "(", "0", ".", ",", "0", ".", ",", "0", ".", ")", ",",
      "(", "1", ".", ",", "0", ".", ",", "0", ".", ")", ",", "(", "0", ".",
      ",", "1", ".", ",", "0", ".", ")", ")", ")", ";">>

ClippingBuffers == {BufferOperands}

\* Face sets over one list of three points, their CoordIndex every triple of
\* the values 0, 1 and 3 (#10 to #36) and:
\*   #1=IFCCARTESIANPOINTLIST3D(((0.,0.,0.),(1.,0.,0.),(0.,1.,0.)));
\*   #37=IFCTRIANGULATEDFACESET(#1,$,$,((1,2,3),(3,2,1)));
\*   #38=IFCTRIANGULATEDFACESET(#1,$,$,((-1,2,3)));
\*   #39=IFCTRIANGULATEDFACESET(#1,$,$,((1,2,4)));
\*   #40=IFCTRIANGULATEDFACESET(#1,$,$,((1,2)));
\*   #41=IFCTRIANGULATEDFACESET(#1,$,$,());
\*   #42=IFCTRIANGULATEDFACESET(#1,$,$,((1.,2.,3.)));
\*   #43=IFCTRIANGULATEDFACESET(#1,$,$,((2.7,1,1)));
\*   #44=IFCTRIANGULATEDFACESET(#1,$,$,((1,2,3),$));
\*   #45=IFCTRIANGULATEDFACESET(#1,$,$,((1,2,3),(0,2,1)));
BufferFaceSets ==
    <<"#", "1", "=", "I", "F", "C", "C", "A", "R", "T", "E", "S", "I", "A",
      "N", "P", "O", "I", "N", "T", "L", "I", "S", "T", "3", "D", "(", "(",
      "(", "0", ".", ",", "0", ".", ",", "0", ".", ")", ",", "(", "1", ".",
      ",", "0", ".", ",", "0", ".", ")", ",", "(", "0", ".", ",", "1", ".",
      ",", "0", ".", ")", ")", ")", ";", "#", "1", "0", "=", "I", "F", "C",
      "T", "R", "I", "A", "N", "G", "U", "L", "A", "T", "E", "D", "F", "A",
      "C", "E", "S", "E", "T", "(", "#", "1", ",", "$", ",", "$", ",", "(",
      "(", "0", ",", "0", ",", "0", ")", ")", ")", ";", "#", "1", "1", "=",
      "I", "F", "C", "T", "R", "I", "A", "N", "G", "U", "L", "A", "T", "E",
      "D", "F", "A", "C", "E", "S", "E", "T", "(", "#", "1", ",", "$", ",",
      "$", ",", "(", "(", "0", ",", "0", ",", "1", ")", ")", ")", ";", "#",
      "1", "2", "=", "I", "F", "C", "T", "R", "I", "A", "N", "G", "U", "L",
      "A", "T", "E", "D", "F", "A", "C", "E", "S", "E", "T", "(", "#", "1",
      ",", "$", ",", "$", ",", "(", "(", "0", ",", "0", ",", "3", ")", ")",
      ")", ";", "#", "1", "3", "=", "I", "F", "C", "T", "R", "I", "A", "N",
      "G", "U", "L", "A", "T", "E", "D", "F", "A", "C", "E", "S", "E", "T",
      "(", "#", "1", ",", "$", ",", "$", ",", "(", "(", "0", ",", "1", ",",
      "0", ")", ")", ")", ";", "#", "1", "4", "=", "I", "F", "C", "T", "R",
      "I", "A", "N", "G", "U", "L", "A", "T", "E", "D", "F", "A", "C", "E",
      "S", "E", "T", "(", "#", "1", ",", "$", ",", "$", ",", "(", "(", "0",
      ",", "1", ",", "1", ")", ")", ")", ";", "#", "1", "5", "=", "I", "F",
      "C", "T", "R", "I", "A", "N", "G", "U", "L", "A", "T", "E", "D", "F",
      "A", "C", "E", "S", "E", "T", "(", "#", "1", ",", "$", ",", "$", ",",
      "(", "(", "0", ",", "1", ",", "3", ")", ")", ")", ";", "#", "1", "6",
      "=", "I", "F", "C", "T", "R", "I", "A", "N", "G", "U", "L", "A", "T",
      "E", "D", "F", "A", "C", "E", "S", "E", "T", "(", "#", "1", ",", "$",
      ",", "$", ",", "(", "(", "0", ",", "3", ",", "0", ")", ")", ")", ";",
      "#", "1", "7", "=", "I", "F", "C", "T", "R", "I", "A", "N", "G", "U",
      "L", "A", "T", "E", "D", "F", "A", "C", "E", "S", "E", "T", "(", "#",
      "1", ",", "$", ",", "$", ",", "(", "(", "0", ",", "3", ",", "1", ")",
      ")", ")", ";", "#", "1", "8", "=", "I", "F", "C", "T", "R", "I", "A",
      "N", "G", "U", "L", "A", "T", "E", "D", "F", "A", "C", "E", "S", "E",
      "T", "(", "#", "1", ",", "$", ",", "$", ",", "(", "(", "0", ",", "3",
      ",", "3", ")", ")", ")", ";", "#", "1", "9", "=", "I", "F", "C", "T",
      "R", "I", "A", "N", "G", "U", "L", "A", "T", "E", "D", "F", "A", "C",
      "E", "S", "E", "T", "(", "#", "1", ",", "$", ",", "$", ",", "(", "(",
      "1", ",", "0", ",", "0", ")", ")", ")", ";", "#", "2", "0", "=", "I",
      "F", "C", "T", "R", "I", "A", "N", "G", "U", "L", "A", "T", "E", "D",
      "F", "A", "C", "E", "S", "E", "T", "(", "#", "1", ",", "$", ",", "$",
      ",", "(", "(", "1", ",", "0", ",", "1", ")", ")", ")", ";", "#", "2",
      "1", "=", "I", "F", "C", "T", "R", "I", "A", "N", "G", "U", "L", "A",
      "T", "E", "D", "F", "A", "C", "E", "S", "E", "T", "(", "#", "1", ",",
      "$", ",", "$", ",", "(", "(", "1", ",", "0", ",", "3", ")", ")", ")",
      ";", "#", "2", "2", "=", "I", "F", "C", "T", "R", "I", "A", "N", "G",
      "U", "L", "A", "T", "E", "D", "F", "A", "C", "E", "S", "E", "T", "(",
      "#", "1", ",", "$", ",", "$", ",", "(", "(", "1", ",", "1", ",", "0",
      ")", ")", ")", ";", "#", "2", "3", "=", "I", "F", "C", "T", "R", "I",
      "A", "N", "G", "U", "L", "A", "T", "E", "D", "F", "A", "C", "E", "S",
      "E", "T", "(", "#", "1", ",", "$", ",", "$", ",", "(", "(", "1", ",",
      "1", ",", "1", ")", ")", ")", ";", "#", "2", "4", "=", "I", "F", "C",
      "T", "R", "I", "A", "N", "G", "U", "L", "A", "T", "E", "D", "F", "A",
      "C", "E", "S", "E", "T", "(", "#", "1", ",", "$", ",", "$", ",", "(",
      "(", "1", ",", "1", ",", "3", ")", ")", ")", ";", "#", "2", "5", "=",
      "I", "F", "C", "T", "R", "I", "A", "N", "G", "U", "L", "A", "T", "E",
      "D", "F", "A", "C", "E", "S", "E", "T", "(", "#", "1", ",", "$", ",",
      "$", ",", "(", "(", "1", ",", "3", ",", "0", ")", ")", ")", ";", "#",
      "2", "6", "=", "I", "F", "C", "T", "R", "I", "A", "N", "G", "U", "L",
      "A", "T", "E", "D", "F", "A", "C", "E", "S", "E", "T", "(", "#", "1",
      ",", "$", ",", "$", ",", "(", "(", "1", ",", "3", ",", "1", ")", ")",
      ")", ";", "#", "2", "7", "=", "I", "F", "C", "T", "R", "I", "A", "N",
      "G", "U", "L", "A", "T", "E", "D", "F", "A", "C", "E", "S", "E", "T",
      "(", "#", "1", ",", "$", ",", "$", ",", "(", "(", "1", ",", "3", ",",
      "3", ")", ")", ")", ";", "#", "2", "8", "=", "I", "F", "C", "T", "R",
      "I", "A", "N", "G", "U", "L", "A", "T", "E", "D", "F", "A", "C", "E",
      "S", "E", "T", "(", "#", "1", ",", "$", ",", "$", ",", "(", "(", "3",
      ",", "0", ",", "0", ")", ")", ")", ";", "#", "2", "9", "=", "I", "F",
      "C", "T", "R", "I", "A", "N", "G", "U", "L", "A", "T", "E", "D", "F",
      "A", "C", "E", "S", "E", "T", "(", "#", "1", ",", "$", ",", "$", ",",
      "(", "(", "3", ",", "0", ",", "1", ")", ")", ")", ";", "#", "3", "0",
      "=", "I", "F", "C", "T", "R", "I", "A", "N", "G", "U", "L", "A", "T",
      "E", "D", "F", "A", "C", "E", "S", "E", "T", "(", "#", "1", ",", "$",
      ",", "$", ",", "(", "(", "3", ",", "0", ",", "3", ")", ")", ")", ";",
      "#", "3", "1", "=", "I", "F", "C", "T", "R", "I", "A", "N", "G", "U",
      "L", "A", "T", "E", "D", "F", "A", "C", "E", "S", "E", "T", "(", "#",
      "1", ",", "$", ",", "$", ",", "(", "(", "3", ",", "1", ",", "0", ")",
      ")", ")", ";", "#", "3", "2", "=", "I", "F", "C", "T", "R", "I", "A",
      "N", "G", "U", "L", "A", "T", "E", "D", "F", "A", "C", "E", "S", "E",
      "T", "(", "#", "1", ",", "$", ",", "$", ",", "(", "(", "3", ",", "1",
      ",", "1", ")", ")", ")", ";", "#", "3", "3", "=", "I", "F", "C", "T",
      "R", "I", "A", "N", "G", "U", "L", "A", "T", "E", "D", "F", "A", "C",
      "E", "S", "E", "T", "(", "#", "1", ",", "$", ",", "$", ",", "(", "(",
      "3", ",", "1", ",", "3", ")", ")", ")", ";", "#", "3", "4", "=", "I",
      "F", "C", "T", "R", "I", "A", "N", "G", "U", "L", "A", "T", "E", "D",
      "F", "A", "C", "E", "S", "E", "T", "(", "#", "1", ",", "$", ",", "$",
      ",", "(", "(", "3", ",", "3", ",", "0", ")", ")", ")", ";", "#", "3",
      "5", "=", "I", "F", "C", "T", "R", "I", "A", "N", "G", "U", "L", "A",
      "T", "E", "D", "F", "A", "C", "E", "S", "E", "T", "(", "#", "1", ",",
      "$", ",", "$", ",", "(", "(", "3", ",", "3", ",", "1", ")", ")", ")",
      ";", "#", "3", "6", "=", "I", "F", "C", "T", "R", "I", "A", "N", "G",
      "U", "L", "A", "T", "E", "D", "F", "A", "C", "E", "S", "E", "T", "(",
      "#", "1", ",", "$", ",", "$", ",", "(", "(", "3", ",", "3", ",", "3",
      ")", ")", ")", ";", "#", "3", "7", "=", "I", "F", "C", "T", "R", "I",
      "A", "N", "G", "U", "L", "A", "T", "E", "D", "F", "A", "C", "E", "S",
      "E", "T", "(", "#", "1", ",", "$", ",", "$", ",", "(", "(", "1", ",",
      "2", ",", "3", ")", ",", "(", "3", ",", "2", ",", "1", ")", ")", ")",
      ";", "#", "3", "8", "=", "I", "F", "C", "T", "R", "I", "A", "N", "G",
      "U", "L", "A", "T", "E", "D", "F", "A", "C", "E", "S", "E", "T", "(",
      "#", "1", ",", "$", ",", "$", ",", "(", "(", "-", "1", ",", "2", ",",
      "3", ")", ")", ")", ";", "#", "3", "9", "=", "I", "F", "C", "T", "R",
      "I", "A", "N", "G", "U", "L", "A", "T", "E", "D", "F", "A", "C", "E",
      "S", "E", "T", "(", "#", "1", ",", "$", ",", "$", ",", "(", "(", "1",
      ",", "2", ",", "4", ")", ")", ")", ";", "#", "4", "0", "=", "I", "F",
      "C", "T", "R", "I", "A", "N", "G", "U", "L", "A", "T", "E", "D", "F",
      "A", "C", "E", "S", "E", "T", "(", "#", "1", ",", "$", ",", "$", ",",
      "(", "(", "1", ",", "2", ")", ")", ")", ";", "#", "4", "1", "=", "I",
      "F", "C", "T", "R", "I", "A", "N", "G", "U", "L", "A", "T", "E", "D",
      "F", "A", "C", "E", "S", "E", "T", "(", "#", "1", ",", "$", ",", "$",
      ",", "(", ")", ")", ";", "#", "4", "2", "=", "I", "F", "C", "T", "R",
      "I", "A", "N", "G", "U", "L", "A", "T", "E", "D", "F", "A", "C", "E",
      "S", "E", "T", "(", "#", "1", ",", "$", ",", "$", ",", "(", "(", "1",
      ".", ",", "2", ".", ",", "3", ".", ")", ")", ")", ";", "#", "4", "3",
      "=", "I", "F", "C", "T", "R", "I", "A", "N", "G", "U", "L", "A", "T",
      "E", "D", "F", "A", "C", "E", "S", "E", "T", "(", "#", "1", ",", "$",
      ",", "$", ",", "(", "(", "2", ".", "7", ",", "1", ",", "1", ")", ")",
      ")", ";", "#", "4", "4", "=", "I", "F", "C", "T", "R", "I", "A", "N",
      "G", "U", "L", "A", "T", "E", "D", "F", "A", "C", "E", "S", "E", "T",
      "(", "#", "1", ",", "$", ",", "$", ",", "(", "(", "1", ",", "2", ",",
      "3", ")", ",", "$", ")", ")", ";", "#", "4", "5", "=", "I", "F", "C",
      "T", "R", "I", "A", "N", "G", "U", "L", "A", "T", "E", "D", "F", "A",
      "C", "E", "S", "E", "T", "(", "#", "1", ",", "$", ",", "$", ",", "(",
      "(", "1", ",", "2", ",", "3", ")", ",", "(", "0", ",", "2", ",", "1",
      ")", ")", ")", ";">>

FaceSetBuffers == {BufferFaceSets}

RECURSIVE Concat(_)
Concat(parts) == IF parts = <<>> THEN <<>> ELSE Head(parts) \o Concat(Tail(parts))

\* A brep of two faces: face #3 with the bounds #5 and #6, face #4 with the
\* bound #6; a triangle, a quadrilateral and a loop of two points.
\*   #1=IFCFACETEDBREP(#2);
\*   #2=IFCCLOSEDSHELL((#3,#4));
\*   #3=IFCFACE((#5,#6));
\*   #4=IFCFACE((#6,#5));
\*   #7=IFCPOLYLOOP((#10,#11,#12));
\*   #8=IFCPOLYLOOP((#10,#12,#13,#11));
\*   #9=IFCPOLYLOOP((#10,#11));
\*   #10=IFCCARTESIANPOINT((0.,0.,0.));
\*   #11=IFCCARTESIANPOINT((1.,0.,0.));
\*   #12=IFCCARTESIANPOINT((1.,1.,0.));
\*   #13=IFCCARTESIANPOINT((0.,1.,0.));
BrepShell ==
    <<"#", "1", "=", "I", "F", "C", "F", "A", "C", "E", "T", "E", "D", "B",
      "R", "E", "P", "(", "#", "2", ")", ";", "#", "2", "=", "I", "F", "C",
      "C", "L", "O", "S", "E", "D", "S", "H", "E", "L", "L", "(", "(", "#",
      "3", ",", "#", "4", ")", ")", ";", "#", "3", "=", "I", "F", "C", "F",
      "A", "C", "E", "(", "(", "#", "5", ",", "#", "6", ")", ")", ";", "#",
      "4", "=", "I", "F", "C", "F", "A", "C", "E", "(", "(", "#", "6", ",",
      "#", "5", ")", ")", ";", "#", "7", "=", "I", "F", "C", "P", "O", "L", "Y", "L", "O",
      "O", "P", "(", "(", "#", "1", "0", ",", "#", "1", "1", ",", "#", "1",
      "2", ")", ")", ";", "#", "8", "=", "I", "F", "C", "P", "O", "L", "Y",
      "L", "O", "O", "P", "(", "(", "#", "1", "0", ",", "#", "1", "2", ",",
      "#", "1", "3", ",", "#", "1", "1", ")", ")", ";", "#", "9", "=", "I",
      "F", "C", "P", "O", "L", "Y", "L", "O", "O", "P", "(", "(", "#", "1",
      "0", ",", "#", "1", "1", ")", ")", ";", "#", "1", "0", "=", "I", "F",
      "C", "C", "A", "R", "T", "E", "S", "I", "A", "N", "P", "O", "I", "N",
      "T", "(", "(", "0", ".", ",", "0", ".", ",", "0", ".", ")", ")", ";",
      "#", "1", "1", "=", "I", "F", "C", "C", "A", "R", "T", "E", "S", "I",
      "A", "N", "P", "O", "I", "N", "T", "(", "(", "1", ".", ",", "0", ".",
      ",", "0", ".", ")", ")", ";", "#", "1", "2", "=", "I", "F", "C", "C",
      "A", "R", "T", "E", "S", "I", "A", "N", "P", "O", "I", "N", "T", "(",
      "(", "1", ".", ",", "1", ".", ",", "0", ".", ")", ")", ";", "#", "1",
      "3", "=", "I", "F", "C", "C", "A", "R", "T", "E", "S", "I", "A", "N",
      "P", "O", "I", "N", "T", "(", "(", "0", ".", ",", "1", ".", ",", "0",
      ".", ")", ")", ";">>

\* The head of bound #5, an outer bound or a plain one, of the triangle.
BrepOuterBounds ==
    { <<"#", "5", "=", "I", "F", "C", "F", "A", "C", "E", "O", "U", "T", "E", "R",
        "B", "O", "U", "N", "D", "(", "#", "7">>,
      <<"#", "5", "=", "I", "F", "C", "F", "A", "C", "E", "B", "O", "U", "N", "D",
        "(", "#", "7">> }

\* The head of bound #6, of the quadrilateral or of the loop of two points.
BrepInnerBounds ==
    { <<"#", "6", "=", "I", "F", "C", "F", "A", "C", "E", "B", "O", "U", "N", "D",
        "(", "#", "8">>,
      <<"#", "6", "=", "I", "F", "C", "F", "A", "C", "E", "B", "O", "U", "N", "D",
        "(", "#", "9">> }

\* The Orientation of a bound and the end of its statement: .T., .F., null,
\* no attribute at all, the string 'F', and another enum.
BrepOrientations ==
    { <<",", ".", "T", ".", ")", ";">>,
      <<",", ".", "F", ".", ")", ";">>,
      <<",", "$", ")", ";">>,
      <<")", ";">>,
      <<",", "'", "F", "'", ")", ";">>,
      <<",", ".", "U", ".", ")", ";">> }

BrepBuffers ==
    {Concat(<<BrepShell, b5, o5, b6, o6>>) :
        b5 \in BrepOuterBounds, o5 \in BrepOrientations,
        b6 \in BrepInnerBounds, o6 \in BrepOrientations}

\* The statements of a buffer: from each '#' to the first ';' after it. The
\* ranges of a scanner pass and of the entity index are among them.
StatementsOf(b) ==
    {Slice(b, i, Memchr(";", b, i) + 1) :
        i \in {k \in 0..(Len(b) - 1) : At(b, k) = "#" /\ Memchr(";", b, k) # -1}}

\* The statements of the buffers the decoders are run on.
BufferLines ==
    UNION {StatementsOf(b) :
              b \in DecoderBuffers \cup RouterBuffers \cup BrepBuffers \cup ClippingBuffers
                        \cup FaceSetBuffers}

\* parse_entity on each statement of the buffers, computed once.
ParsedLines == [line \in BufferLines |-> parse_entity(line)]

\* EntityDecoder::decode_at
decode_at(dec, b, start, end) ==
    Bind(Slice(b, start, end), LAMBDA line :
    Bind(ParsedLines[line], LAMBDA p :
    IF ~p.ok
    THEN [ret |-> ErrorParse(<<"Failed to parse entity", Str(line)>>), dec |-> dec]
    ELSE
    IF p.id \in DOMAIN dec.cache
    THEN [ret |-> Ok(dec.cache[p.id]), dec |-> dec]
    ELSE
    Bind(DecodedEntityNew(p.id, p.ifc_type,
                          [k \in 1..Len(p.tokens) |-> from_token(p.tokens[k])]),
         LAMBDA entity :
    [ret |-> Ok(entity),
     dec |-> [dec EXCEPT !.cache = CacheInsert(dec.cache, p.id, entity)]])))

\* The error decode_by_id returns for an id the index does not hold.
NotFoundError(entity_id) == ErrorParse(<<"Entity not found", entity_id>>)

\* EntityDecoder::decode_by_id
decode_by_id(dec, b, entity_id) ==
    IF entity_id \in DOMAIN dec.cache
    THEN [ret |-> Ok(dec.cache[entity_id]), dec |-> dec]
    ELSE
    Bind(build_index(dec, b), LAMBDA built :
    Bind(built.entity_index.val, LAMBDA index :
    IF entity_id \notin DOMAIN index
    THEN [ret |-> NotFoundError(entity_id), dec |-> built]
    ELSE decode_at(built, b, index[entity_id][1], index[entity_id][2])))

\* What resolve_ref returns for an attribute that is not an entity reference.
ResolveNonRef(attr) == Ok(None)

\* EntityDecoder::resolve_ref
resolve_ref(dec, b, attr) ==
    Bind(as_entity_ref(attr), LAMBDA id :
    IF id.some
    THEN Bind(decode_by_id(dec, b, id.val), LAMBDA r :
         IF r.ret.ok
         THEN [ret |-> Ok([some |-> TRUE, val |-> r.ret.val]), dec |-> r.dec]
         ELSE r)
    ELSE [ret |-> ResolveNonRef(attr), dec |-> dec])

\* The loop of resolve_ref_list from the k-th item on.
RECURSIVE resolve_ref_list_from(_, _, _, _, _)
resolve_ref_list_from(dec, b, items, k, entities) ==
    IF k > Len(items) THEN [ret |-> Ok(entities), dec |-> dec]
    ELSE Bind(as_entity_ref(items[k]), LAMBDA id :
         IF ~id.some THEN resolve_ref_list_from(dec, b, items, k + 1, entities)
         ELSE Bind(decode_by_id(dec, b, id.val), LAMBDA r :
              IF ~r.ret.ok THEN r
              ELSE resolve_ref_list_from(r.dec, b, items, k + 1,
                                         Append(entities, r.ret.val))))

\* EntityDecoder::resolve_ref_list
resolve_ref_list(dec, b, attr) ==
    Bind(as_list(attr), LAMBDA l :
    IF ~l.some THEN [ret |-> ErrorParse(<<"Expected list">>), dec |-> dec]
    ELSE resolve_ref_list_from(dec, b, l.val, 1, <<>>))

\* EntityDecoder::clear_cache
clear_cache(dec) == [dec EXCEPT !.cache = <<>>]

(***************************************************************************)
(* The decoder as a state machine: one buffer, one EntityDecoder, any      *)
(* sequence of its public operations.                                      *)
(***************************************************************************)

\* The ranges a pass of an EntityScanner returns from offset pos on.
RECURSIVE ScannerRangesFrom(_, _)
ScannerRangesFrom(b, pos) ==
    LET e == next_entity(b, pos) IN
    IF e.some
    THEN {<<e.line_start, e.line_end>>} \cup ScannerRangesFrom(b, e.position)
    ELSE {}

\* The ids a pass of an EntityScanner returns from offset pos on.
RECURSIVE ScannerIdsFrom(_, _)
ScannerIdsFrom(b, pos) ==
    LET e == next_entity(b, pos) IN
    IF e.some THEN {e.id} \cup ScannerIdsFrom(b, e.position) ELSE {}

\* The ranges of the entity index.
IndexRanges(b) ==
    Bind(build_entity_index(b), LAMBDA index : {index[i] : i \in DOMAIN index})

\* The byte ranges callers hand to decode_at: those a scanner pass returns
\* and those of the entity index.
DecodeRanges(b) == ScannerRangesFrom(b, 0) \cup IndexRanges(b)

\* Ids no sample buffer defines.
AbsentIds == {9}

\* The ids callers hand to decode_by_id.
DecoderIds(b) ==
    DOMAIN build_entity_index(b) \cup ScannerIdsFrom(b, 0) \cup AbsentIds

\* Attribute values of every variant, as decoded entities hold them.
SampleAttrs ==
    { [kind |-> "String", s |-> "a"],
      [kind |-> "Integer", v |-> 7],
      [kind |-> "Float", neg |-> FALSE, mant |-> 25, exp |-> -1],
      [kind |-> "Enum", s |-> "T"],
      [kind |-> "List", items |-> <<>>],
      [kind |-> "List", items |-> <<[kind |-> "Null"], [kind |-> "Integer", v |-> 7]>>],
      [kind |-> "Null"],
      [kind |-> "Derived"],
      [kind |-> "EntityRef", id |-> 1],
      [kind |-> "EntityRef", id |-> 9] }

\* The decoder the variables hold.
Dec == [cache |-> cache, entity_index |-> entity_index]

\* The attributes callers hand to resolve_ref and resolve_ref_list: those of
\* the entities decoded so far, and the samples.
AttrsInUse ==
    SampleAttrs \cup
    UNION { {cache[i].attributes[k] : k \in 1..Len(cache[i].attributes)} :
            i \in DOMAIN cache }

\* EntityDecoder::new(content) or with_index(content, build_entity_index(content))
InitDecoder ==
    /\ content \in DecoderBuffers
    /\ IdleThreads
    /\ IdleStream
    /\ IdleScanner
    /\ IdleMesh
    /\ IdleRouter
    /\ \E d \in {DecoderNew, DecoderWithIndex(build_entity_index(content))} :
          /\ cache = d.cache
          /\ entity_index = d.entity_index
    /\ dec_ret = [op |-> "new"]

\* decoder.decode_at(start, end)
DecodeAt ==
    \E range \in DecodeRanges(content) :
    \E r \in {decode_at(Dec, content, range[1], range[2])} :
        /\ cache' = r.dec.cache
        /\ entity_index' = r.dec.entity_index
        /\ dec_ret' = [op |-> "decode_at", start |-> range[1], end |-> range[2],
                       pre |-> Dec, ret |-> r.ret]
        /\ UNCHANGED <<content, scanner_vars, mesh_vars, router_vars,
                     threads_vars, stream_vars>>

\* decoder.decode_by_id(id)
DecodeById ==
    \E id \in DecoderIds(content) :
    \E r \in {decode_by_id(Dec, content, id)} :
        /\ cache' = r.dec.cache
        /\ entity_index' = r.dec.entity_index
        /\ dec_ret' = [op |-> "decode_by_id", id |-> id, pre |-> Dec, ret |-> r.ret]
        /\ UNCHANGED <<content, scanner_vars, mesh_vars, router_vars,
                     threads_vars, stream_vars>>

\* decoder.resolve_ref(&attr)
ResolveRef ==
    \E attr \in AttrsInUse :
    \E r \in {resolve_ref(Dec, content, attr)} :
        /\ cache' = r.dec.cache
        /\ entity_index' = r.dec.entity_index
        /\ dec_ret' = [op |-> "resolve_ref", attr |-> attr, pre |-> Dec, ret |-> r.ret]
        /\ UNCHANGED <<content, scanner_vars, mesh_vars, router_vars,
                     threads_vars, stream_vars>>

\* decoder.resolve_ref_list(&attr)
ResolveRefList ==
    \E attr \in AttrsInUse :
    \E r \in {resolve_ref_list(Dec, content, attr)} :
        /\ cache' = r.dec.cache
        /\ entity_index' = r.dec.entity_index
        /\ dec_ret' = [op |-> "resolve_ref_list", attr |-> attr, pre |-> Dec,
                       ret |-> r.ret]
        /\ UNCHANGED <<content, scanner_vars, mesh_vars, router_vars,
                     threads_vars, stream_vars>>

\* decoder.clear_cache()
ClearCache ==
    LET d == clear_cache(Dec) IN
    /\ cache # <<>>
    /\ cache' = d.cache
    /\ entity_index' = d.entity_index
    /\ dec_ret' = [op |-> "clear_cache", pre |-> Dec]
    /\ UNCHANGED <<content, scanner_vars, mesh_vars, router_vars,
                     threads_vars, stream_vars>>

NextDecoder == DecodeAt \/ DecodeById \/ ResolveRef \/ ResolveRefList \/ ClearCache

SpecDecoder == InitDecoder /\ [][NextDecoder]_vars

(***************************************************************************)
(* Properties of the decoder                                               *)
(***************************************************************************)

\* C1: whatever calls came before, for every id i of the buffer's entity
\* index decode_by_id(i) returns what decode_at(index[i]) returns.
C1_DecodeByIdEqualsDecodeAt ==
    LET index == build_entity_index(content) IN
    \A i \in DOMAIN index :
        decode_by_id(Dec, content, i).ret
            = decode_at(Dec, content, index[i][1], index[i][2]).ret

\* C6: resolve_ref returns the decoded entity for an EntityRef, none for Null
\* and Derived, and an error for String, Integer, Float, Enum and List.
C6_ResolveRefTypeError ==
    dec_ret.op = "resolve_ref" =>
        LET attr == dec_ret.attr
            ret == dec_ret.ret
        IN
        /\ attr.kind = "EntityRef" =>
              LET d == decode_by_id(dec_ret.pre, content, attr.id).ret IN
              IF d.ok THEN ret = Ok([some |-> TRUE, val |-> d.val]) ELSE ret = d
        /\ is_null(attr) => ret = Ok(None)
        /\ (attr.kind # "EntityRef" /\ ~is_null(attr)) => ~ret.ok

\* C7: decode_by_id of an id that is neither cached nor in the entity index
\* returns an error of the not-found / invalid-reference kind, not a
\* ParseError.
C7_AbsentIdIsNotFound ==
    ( /\ dec_ret.op = "decode_by_id"
      /\ dec_ret.id \notin DOMAIN build_entity_index(content)
      /\ dec_ret.id \notin DOMAIN dec_ret.pre.cache )
    => /\ ~dec_ret.ret.ok
       /\ dec_ret.ret.kind \in {"NotFound", "InvalidEntityRef"}

IsEntityRef(attr) == attr.kind = "EntityRef"

\* C8: resolve_ref_list fails on an attribute that is not a list; on a list it
\* returns the decoded entities of the EntityRef children, in list order, the
\* other children changing nothing: they add no entity and raise no error (the
\* only error being that of a reference child that cannot be decoded).
C8_ResolveRefListCollectsRefs ==
    dec_ret.op = "resolve_ref_list" =>
        LET attr == dec_ret.attr
            ret == dec_ret.ret
        IN
        /\ attr.kind # "List" => ~ret.ok
        /\ attr.kind = "List" =>
              LET refs == SelectSeq(attr.items, IsEntityRef) IN
              /\ ret.ok =>
                    /\ Len(ret.val) = Len(refs)
                    /\ \A k \in 1..Len(refs) :
                          /\ ret.val[k].id = refs[k].id
                          /\ ret.val[k] = decode_by_id(Dec, content, refs[k].id).ret.val
              /\ ~ret.ok =>
                    \E k \in 1..Len(refs) :
                        decode_by_id(Dec, content, refs[k].id).ret = ret
              /\ (\A k \in 1..Len(refs) :
                      decode_by_id(dec_ret.pre, content, refs[k].id).ret.ok) => ret.ok

\* A list with two reference children and children that are no references,
\* resolved to the two entities.
C8_Witness ==
    /\ dec_ret.op = "resolve_ref_list"
    /\ dec_ret.attr.kind = "List"
    /\ Len(SelectSeq(dec_ret.attr.items, IsEntityRef)) >= 2
    /\ Len(SelectSeq(dec_ret.attr.items, IsEntityRef)) < Len(dec_ret.attr.items)
    /\ dec_ret.ret.ok
    /\ Len(dec_ret.ret.val) = 2
    /\ dec_ret.ret.val[1].id # dec_ret.ret.val[2].id

(***************************************************************************)
(* Geometry router (geometry/src/router.rs, processors.rs)                 *)
(*                                                                         *)
(* A routine that takes the decoder returns [ret, dec]: what it returns    *)
(* and the decoder it leaves.  ret is Ok(value), an error, or              *)
(* StackOverflow when the call nesting passed what the stack holds, in     *)
(* which case the thread is aborted and nothing is returned to the caller. *)
(* Numbers are decimals [neg, mant, exp] as the tokenizer reads them.  A   *)
(* transformation matrix is held as the sequence of the placement frames   *)
(* whose matrices are multiplied, the identity being the empty sequence.   *)
(***************************************************************************)

\* Error::geometry(msg)
GeometryError(msg) == [ok |-> FALSE, kind |-> "GeometryError", message |-> msg]

\* The `?` on a core result inside a geometry routine: From<ifc_lite_core::Error>.
CoreError(e) == [ok |-> FALSE, kind |-> "CoreError", source |-> e]

\* The call stack is exhausted.
StackOverflow == [ok |-> FALSE, kind |-> "StackOverflow"]

\* The deepest nesting of recursive calls the stack holds.
MaxStackDepth == 3

\* An IfcType variant with a name from_str knows.
IfcType(name) == [kind |-> "Known", name |-> name]

\* DecodedEntity::get(index), index from 0.
Get(entity, index) ==
    IF index < Len(entity.attributes)
    THEN [some |-> TRUE, val |-> entity.attributes[index + 1]]
    ELSE None

\* slice.get(index) on a list of attributes, index from 0.
ListGet(items, index) ==
    IF index < Len(items) THEN [some |-> TRUE, val |-> items[index + 1]] ELSE None

\* i as f64
IntToDecimal(v) ==
    Bind(NormalizeDecimal(IF v < 0 THEN 0 - v ELSE v, 0), LAMBDA n :
    [neg |-> v < 0, mant |-> n.mant, exp |-> n.exp])

\* AttributeValue::as_float: a Float, or an Integer widened.
as_float(attr) ==
    CASE attr.kind = "Float" ->
            [some |-> TRUE, val |-> [neg |-> attr.neg, mant |-> attr.mant, exp |-> attr.exp]]
      [] attr.kind = "Integer" -> [some |-> TRUE, val |-> IntToDecimal(attr.v)]
      [] OTHER -> None

\* AttributeValue::as_string
as_string(attr) ==
    IF attr.kind = "String" THEN [some |-> TRUE, val |-> attr.s] ELSE None

\* coords.get(k).and_then(|v| v.as_float()).unwrap_or(default)
FloatAt(items, k, default) ==
    Bind(ListGet(items, k), LAMBDA a :
    IF ~a.some THEN default
    ELSE Bind(as_float(a.val), LAMBDA f : IF f.some THEN f.val ELSE default))

Zero == IntToDecimal(0)

One == IntToDecimal(1)

\* GeometryRouter::parse_cartesian_point
parse_cartesian_point(dec, b, parent, attr_index) ==
    Bind(Get(parent, attr_index), LAMBDA point_attr :
    IF ~point_attr.some
    THEN [ret |-> GeometryError("Missing cartesian point"), dec |-> dec]
    ELSE
    Bind(resolve_ref(dec, b, point_attr.val), LAMBDA r :
    IF ~r.ret.ok THEN [ret |-> CoreError(r.ret), dec |-> r.dec]
    ELSE IF ~r.ret.val.some
    THEN [ret |-> GeometryError("Failed to resolve cartesian point"), dec |-> r.dec]
    ELSE
    Bind(r.ret.val.val, LAMBDA point_entity :
    IF point_entity.ifc_type # IfcType("IFCCARTESIANPOINT")
    THEN [ret |-> GeometryError("Expected IfcCartesianPoint"), dec |-> r.dec]
    ELSE
    Bind(Get(point_entity, 0), LAMBDA coords_attr :
    IF ~coords_attr.some
    THEN [ret |-> GeometryError("IfcCartesianPoint missing coordinates"), dec |-> r.dec]
    ELSE
    Bind(as_list(coords_attr.val), LAMBDA coords :
    IF ~coords.some
    THEN [ret |-> GeometryError("Expected coordinate list"), dec |-> r.dec]
    ELSE [ret |-> Ok(<<FloatAt(coords.val, 0, Zero), FloatAt(coords.val, 1, Zero),
                       FloatAt(coords.val, 2, Zero)>>),
          dec |-> r.dec])))))

\* GeometryRouter::parse_direction
parse_direction(direction_entity) ==
    IF direction_entity.ifc_type # IfcType("IFCDIRECTION")
    THEN GeometryError("Expected IfcDirection")
    ELSE
    Bind(Get(direction_entity, 0), LAMBDA ratios_attr :
    IF ~ratios_attr.some THEN GeometryError("IfcDirection missing ratios")
    ELSE
    Bind(as_list(ratios_attr.val), LAMBDA ratios :
    IF ~ratios.some THEN GeometryError("Expected ratio list")
    ELSE Ok(<<FloatAt(ratios.val, 0, Zero), FloatAt(ratios.val, 1, Zero),
              FloatAt(ratios.val, 2, Zero)>>)))

\* One axis of parse_axis2_placement_3d: the direction attribute index names,
\* or the default when it is missing, null or resolves to nothing.
PlacementAxis(dec, b, placement, index, default) ==
    Bind(Get(placement, index), LAMBDA axis_attr :
    IF ~axis_attr.some \/ is_null(axis_attr.val) THEN [ret |-> Ok(default), dec |-> dec]
    ELSE
    Bind(resolve_ref(dec, b, axis_attr.val), LAMBDA r :
    IF ~r.ret.ok THEN [ret |-> CoreError(r.ret), dec |-> r.dec]
    ELSE IF ~r.ret.val.some THEN [ret |-> Ok(default), dec |-> r.dec]
    ELSE [ret |-> parse_direction(r.ret.val.val), dec |-> r.dec]))

\* Matrix4::identity()
Identity == <<>>

\* parent_transform * local_transform
Compose(parent_transform, local_transform) == parent_transform \o local_transform

\* GeometryRouter::parse_axis2_placement_3d: the matrix of the frame with the
\* given location and axes.
parse_axis2_placement_3d(dec, b, placement) ==
    Bind(parse_cartesian_point(dec, b, placement, 0), LAMBDA location :
    IF ~location.ret.ok THEN location
    ELSE
    Bind(PlacementAxis(location.dec, b, placement, 1, <<Zero, Zero, One>>), LAMBDA z_axis :
    IF ~z_axis.ret.ok THEN z_axis
    ELSE
    Bind(PlacementAxis(z_axis.dec, b, placement, 2, <<One, Zero, Zero>>), LAMBDA x_axis :
    IF ~x_axis.ret.ok THEN x_axis
    ELSE [ret |-> Ok(<<[location |-> location.ret.val, z_axis |-> z_axis.ret.val,
                        x_axis |-> x_axis.ret.val]>>),
          dec |-> x_axis.dec])))

\* GeometryRouter::get_placement_transform, depth being the nesting of the
\* call.
RECURSIVE get_placement_transform(_, _, _, _)
get_placement_transform(dec, b, placement, depth) ==
    IF depth > MaxStackDepth THEN [ret |-> StackOverflow, dec |-> dec]
    ELSE IF placement.ifc_type # IfcType("IFCLOCALPLACEMENT")
    THEN [ret |-> Ok(Identity), dec |-> dec]
    ELSE
    Bind(Get(placement, 0), LAMBDA parent_attr :
    Bind(IF parent_attr.some /\ ~is_null(parent_attr.val)
         THEN resolve_ref(dec, b, parent_attr.val)
         ELSE [ret |-> Ok(None), dec |-> dec], LAMBDA parent_ref :
    IF ~parent_ref.ret.ok THEN [ret |-> CoreError(parent_ref.ret), dec |-> parent_ref.dec]
    ELSE
    Bind(IF parent_ref.ret.val.some
         THEN get_placement_transform(parent_ref.dec, b, parent_ref.ret.val.val, depth + 1)
         ELSE [ret |-> Ok(Identity), dec |-> parent_ref.dec], LAMBDA parent_transform :
    IF ~parent_transform.ret.ok THEN parent_transform
    ELSE
    Bind(Get(placement, 1), LAMBDA rel_attr :
    Bind(IF rel_attr.some /\ ~is_null(rel_attr.val)
         THEN resolve_ref(parent_transform.dec, b, rel_attr.val)
         ELSE [ret |-> Ok(None), dec |-> parent_transform.dec], LAMBDA rel_ref :
    IF ~rel_ref.ret.ok THEN [ret |-> CoreError(rel_ref.ret), dec |-> rel_ref.dec]
    ELSE
    Bind(IF rel_ref.ret.val.some
            /\ rel_ref.ret.val.val.ifc_type = IfcType("IFCAXIS2PLACEMENT3D")
         THEN parse_axis2_placement_3d(rel_ref.dec, b, rel_ref.ret.val.val)
         ELSE [ret |-> Ok(Identity), dec |-> rel_ref.dec], LAMBDA local_transform :
    IF ~local_transform.ret.ok THEN local_transform
    ELSE [ret |-> Ok(Compose(parent_transform.ret.val, local_transform.ret.val)),
          dec |-> local_transform.dec]))))))

\* The vertex triple the k-th float of a buffer belongs to.
TripleOf(floats, k) ==
    Bind(k - ((k - 1) % 3), LAMBDA first :
    <<floats[first], floats[first + 1], floats[first + 2]>>)

\* GeometryRouter::transform_mesh: each position becomes the transformed
\* point's coordinate (the point itself under the identity), each normal the
\* rotated and normalized normal's.
transform_mesh(m, transform) ==
    [m EXCEPT
       !.positions =
           IF transform = Identity THEN @
           ELSE [k \in 1..Len(@) |->
                    [transform |-> transform, point |-> TripleOf(@, k),
                     axis |-> (k - 1) % 3]],
       !.normals =
           [k \in 1..Len(@) |->
               [rotation |-> transform, normal |-> TripleOf(@, k),
                axis |-> (k - 1) % 3]]]

\* GeometryRouter::apply_placement
apply_placement(dec, b, element, m) ==
    Bind(Get(element, 5), LAMBDA placement_attr :
    IF ~placement_attr.some \/ is_null(placement_attr.val)
    THEN [ret |-> Ok(m), dec |-> dec]
    ELSE
    Bind(resolve_ref(dec, b, placement_attr.val), LAMBDA r :
    IF ~r.ret.ok THEN [ret |-> CoreError(r.ret), dec |-> r.dec]
    ELSE IF ~r.ret.val.some THEN [ret |-> Ok(m), dec |-> r.dec]
    ELSE
    Bind(get_placement_transform(r.dec, b, r.ret.val.val, 1), LAMBDA transform :
    IF ~transform.ret.ok THEN transform
    ELSE [ret |-> Ok(transform_mesh(m, transform.ret.val)), dec |-> transform.dec])))

\* A panic: the thread unwinds and nothing is returned to the caller.
Panic == [ok |-> FALSE, kind |-> "Panic"]

\* What the processor of the type returns: its geometry is not computed
\* here.
NotModelled(ifc_type) == [ok |-> FALSE, kind |-> "NotModelled", processor |-> ifc_type]

RECURSIVE Pow10(_)
Pow10(n) == IF n <= 0 THEN 1 ELSE 10 * Pow10(n - 1)

\* f as u32 for a float below 2^31: truncated towards zero, a negative one
\* saturating to 0.
TruncToU32(f) ==
    IF f.neg THEN 0
    ELSE IF f.exp >= 0 THEN f.mant * Pow10(f.exp)
    ELSE f.mant \div Pow10(0 - f.exp)

\* The three values face.get(k).and_then(as_float).unwrap_or(1.0) as u32.
FaceValues(face) ==
    [k \in 1..3 |-> TruncToU32(FloatAt(face, k - 1, One))]

\* The index loop of TriangulatedFaceSetProcessor::process from the k-th face.
RECURSIVE FaceIndicesFrom(_, _, _)
FaceIndicesFrom(face_list, k, indices) ==
    IF k > Len(face_list) THEN Ok(indices)
    ELSE
    Bind(as_list(face_list[k]), LAMBDA face :
    IF ~face.some THEN GeometryError("Expected face triple")
    ELSE
    Bind(FaceValues(face.val), LAMBDA v :
    IF overflow_checks /\ \E j \in 1..3 : v[j] = 0 THEN Panic        \* 0u32 - 1
    ELSE FaceIndicesFrom(face_list, k + 1,
                         indices \o [j \in 1..3 |-> WrappingAdd(v[j], -1)])))

\* TriangulatedFaceSetProcessor::process
TriangulatedFaceSetProcess(dec, b, entity) ==
    Bind(Get(entity, 0), LAMBDA coords_attr :
    IF ~coords_attr.some
    THEN [ret |-> GeometryError("TriangulatedFaceSet missing Coordinates"), dec |-> dec]
    ELSE
    Bind(resolve_ref(dec, b, coords_attr.val), LAMBDA r :
    IF ~r.ret.ok THEN [ret |-> CoreError(r.ret), dec |-> r.dec]
    ELSE IF ~r.ret.val.some
    THEN [ret |-> GeometryError("Failed to resolve Coordinates"), dec |-> r.dec]
    ELSE
    Bind(Get(r.ret.val.val, 0), LAMBDA coord_list_attr :
    IF ~coord_list_attr.some
    THEN [ret |-> GeometryError("CartesianPointList3D missing CoordList"), dec |-> r.dec]
    ELSE
    Bind(as_list(coord_list_attr.val), LAMBDA coord_list :
    IF ~coord_list.some
    THEN [ret |-> GeometryError("Expected coordinate list"), dec |-> r.dec]
    ELSE IF \E k \in 1..Len(coord_list.val) : ~as_list(coord_list.val[k]).some
    THEN [ret |-> GeometryError("Expected coordinate triple"), dec |-> r.dec]
    ELSE
    Bind([k \in 1..(3 * Len(coord_list.val)) |->
             FloatAt(as_list(coord_list.val[((k - 1) \div 3) + 1]).val, (k - 1) % 3, Zero)],
         LAMBDA positions :
    Bind(Get(entity, 3), LAMBDA indices_attr :
    IF ~indices_attr.some
    THEN [ret |-> GeometryError("TriangulatedFaceSet missing CoordIndex"), dec |-> r.dec]
    ELSE
    Bind(as_list(indices_attr.val), LAMBDA face_list :
    IF ~face_list.some
    THEN [ret |-> GeometryError("Expected face index list"), dec |-> r.dec]
    ELSE
    Bind(FaceIndicesFrom(face_list.val, 1, <<>>), LAMBDA indices :
    IF ~indices.ok THEN [ret |-> indices, dec |-> r.dec]
    ELSE [ret |-> Ok([positions |-> positions, normals |-> <<>>, indices |-> indices.val]),
          dec |-> r.dec]))))))))

\* The types whose processors compute swept and boundary geometry.
UnmodelledProcessorTypes ==
    {IfcType("IFCEXTRUDEDAREASOLID"), IfcType("IFCFACETEDBREP"),
     IfcType("IFCSWEPTDISKSOLID")}

\* What a routine returns before its last step is reached.
Return(result) == [done |-> TRUE, result |-> result]

\* FirstOperand read from attribute 2, the SecondOperand.
FirstOperand_Second(dec, b, entity) ==
    Bind(Get(entity, 2), LAMBDA first_operand_attr :
    IF ~first_operand_attr.some
    THEN Return([ret |-> GeometryError("BooleanClippingResult missing FirstOperand"),
                 dec |-> dec])
    ELSE
    Bind(resolve_ref(dec, b, first_operand_attr.val), LAMBDA r :
    IF ~r.ret.ok THEN Return([ret |-> CoreError(r.ret), dec |-> r.dec])
    ELSE IF ~r.ret.val.some
    THEN Return([ret |-> GeometryError("Failed to resolve FirstOperand"), dec |-> r.dec])
    ELSE [done |-> FALSE, dec |-> r.dec, val |-> r.ret.val.val]))

\* The first steps of BooleanClippingProcessor::process: FirstOperand
\* resolved, or what the routine returns without it.
FirstOperand(dec, b, entity) ==
    Bind(Get(entity, 1), LAMBDA first_operand_attr :
    IF ~first_operand_attr.some
    THEN Return([ret |-> GeometryError("BooleanClippingResult missing FirstOperand"),
                 dec |-> dec])
    ELSE
    Bind(resolve_ref(dec, b, first_operand_attr.val), LAMBDA r :
    IF ~r.ret.ok THEN Return([ret |-> CoreError(r.ret), dec |-> r.dec])
    ELSE IF ~r.ret.val.some
    THEN Return([ret |-> GeometryError("Failed to resolve FirstOperand"), dec |-> r.dec])
    ELSE [done |-> FALSE, dec |-> r.dec, val |-> r.ret.val.val]))

RECURSIVE BooleanClippingProcess(_, _, _, _)

\* The last step of BooleanClippingProcessor::process: the match on the type
\* of FirstOperand.
ProcessFirstOperand(b, first_operand, depth) ==
    IF first_operand.done THEN first_operand.result
    ELSE
    CASE first_operand.val.ifc_type \in UnmodelledProcessorTypes ->
            [ret |-> NotModelled(first_operand.val.ifc_type), dec |-> first_operand.dec]
      [] first_operand.val.ifc_type = IfcType("IFCTRIANGULATEDFACESET") ->
            TriangulatedFaceSetProcess(first_operand.dec, b, first_operand.val)
      [] first_operand.val.ifc_type = IfcType("IFCBOOLEANCLIPPINGRESULT") ->
            BooleanClippingProcess(first_operand.dec, b, first_operand.val, depth + 1)
      [] OTHER -> [ret |-> Ok(MeshNew), dec |-> first_operand.dec]

\* BooleanClippingProcessor::process, depth being the nesting of the call.
BooleanClippingProcess(dec, b, entity, depth) ==
    IF depth > MaxStackDepth THEN [ret |-> StackOverflow, dec |-> dec]
    ELSE ProcessFirstOperand(b, FirstOperand(dec, b, entity), depth)

RECURSIVE MappedItemsFrom(_, _, _, _, _, _)

\* The end of one turn of the item loop: the `?` on the item's mesh, the merge
\* and the next item.
MappedItemsNext(b, items, k, acc, depth, item_mesh) ==
    IF ~item_mesh.ret.ok THEN item_mesh
    ELSE MappedItemsFrom(item_mesh.dec, b, items, k + 1,
                         merge(acc, item_mesh.ret.val), depth)

\* The item loop of MappedItemProcessor::process from the k-th item.
MappedItemsFrom(dec, b, items, k, acc, depth) ==
    IF k > Len(items) THEN [ret |-> Ok(acc), dec |-> dec]
    ELSE
    CASE items[k].ifc_type \in UnmodelledProcessorTypes ->
            [ret |-> NotModelled(items[k].ifc_type), dec |-> dec]
      [] items[k].ifc_type = IfcType("IFCTRIANGULATEDFACESET") ->
            MappedItemsNext(b, items, k, acc, depth,
                            TriangulatedFaceSetProcess(dec, b, items[k]))
      [] items[k].ifc_type = IfcType("IFCBOOLEANCLIPPINGRESULT") ->
            MappedItemsNext(b, items, k, acc, depth,
                            BooleanClippingProcess(dec, b, items[k], depth + 1))
      [] OTHER -> MappedItemsFrom(dec, b, items, k + 1, acc, depth)

\* The first steps of MappedItemProcessor::process: the items of the mapped
\* representation resolved, or what the routine returns without them.
MappedItems(dec, b, entity) ==
    Bind(Get(entity, 0), LAMBDA source_attr :
    IF ~source_attr.some
    THEN Return([ret |-> GeometryError("MappedItem missing MappingSource"), dec |-> dec])
    ELSE
    Bind(resolve_ref(dec, b, source_attr.val), LAMBDA source :
    IF ~source.ret.ok THEN Return([ret |-> CoreError(source.ret), dec |-> source.dec])
    ELSE IF ~source.ret.val.some
    THEN Return([ret |-> GeometryError("Failed to resolve MappingSource"),
                 dec |-> source.dec])
    ELSE
    Bind(Get(source.ret.val.val, 1), LAMBDA mapped_rep_attr :
    IF ~mapped_rep_attr.some
    THEN Return([ret |-> GeometryError("RepresentationMap missing MappedRepresentation"),
                 dec |-> source.dec])
    ELSE
    Bind(resolve_ref(source.dec, b, mapped_rep_attr.val), LAMBDA mapped_rep :
    IF ~mapped_rep.ret.ok
    THEN Return([ret |-> CoreError(mapped_rep.ret), dec |-> mapped_rep.dec])
    ELSE IF ~mapped_rep.ret.val.some
    THEN Return([ret |-> GeometryError("Failed to resolve MappedRepresentation"),
                 dec |-> mapped_rep.dec])
    ELSE
    Bind(Get(mapped_rep.ret.val.val, 3), LAMBDA items_attr :
    IF ~items_attr.some
    THEN Return([ret |-> GeometryError("Representation missing Items"),
                 dec |-> mapped_rep.dec])
    ELSE
    Bind(resolve_ref_list(mapped_rep.dec, b, items_attr.val), LAMBDA items :
    IF ~items.ret.ok THEN Return([ret |-> CoreError(items.ret), dec |-> items.dec])
    ELSE [done |-> FALSE, dec |-> items.dec, val |-> items.ret.val]))))))

\* The last step of MappedItemProcessor::process: the loop over the items.
ProcessMappedItems(b, items, depth) ==
    IF items.done THEN items.result
    ELSE MappedItemsFrom(items.dec, b, items.val, 1, MeshNew, depth)

\* MappedItemProcessor::process
MappedItemProcess(dec, b, entity, depth) ==
    ProcessMappedItems(b, MappedItems(dec, b, entity), depth)

\* The types GeometryRouter::new registers a processor for.
ProcessorTypes ==
    UnmodelledProcessorTypes \cup
    {IfcType("IFCTRIANGULATEDFACESET"), IfcType("IFCMAPPEDITEM"),
     IfcType("IFCBOOLEANCLIPPINGRESULT")}

\* The keys of IfcSchema::geometry_types.
GeometryTypes ==
    {IfcType("IFCEXTRUDEDAREASOLID"), IfcType("IFCREVOLVEDAREASOLID"),
     IfcType("IFCBOOLEANRESULT"), IfcType("IFCBOOLEANCLIPPINGRESULT"),
     IfcType("IFCFACETEDBREP"), IfcType("IFCTRIANGULATEDFACESET"),
     IfcType("IFCPOLYGONALFACESET"), IfcType("IFCMAPPEDITEM")}

\* GeometryRouter::process_representation_item
process_representation_item(dec, b, item) ==
    CASE item.ifc_type \in UnmodelledProcessorTypes ->
            [ret |-> NotModelled(item.ifc_type), dec |-> dec]
      [] item.ifc_type = IfcType("IFCTRIANGULATEDFACESET") ->
            TriangulatedFaceSetProcess(dec, b, item)
      [] item.ifc_type = IfcType("IFCMAPPEDITEM") ->
            MappedItemProcess(dec, b, item, 1)
      [] item.ifc_type = IfcType("IFCBOOLEANCLIPPINGRESULT") ->
            BooleanClippingProcess(dec, b, item, 1)
      [] OTHER ->
            IF item.ifc_type \in GeometryTypes
            THEN [ret |-> Ok(MeshNew), dec |-> dec]
            ELSE [ret |-> GeometryError("Unsupported representation type"), dec |-> dec]

\* The representation types process_element takes geometry from.
SolidRepresentationTypes ==
    {"Body", "SweptSolid", "Brep", "CSG", "Clipping", "SurfaceModel",
     "Tessellation", "MappedRepresentation", "AdvancedSweptSolid"}

\* shape_rep is skipped by the loop over the representations.
SkipsRepresentation(shape_rep) ==
    \/ shape_rep.ifc_type # IfcType("IFCSHAPEREPRESENTATION")
    \/ Bind(Get(shape_rep, 2), LAMBDA rep_type_attr :
       /\ rep_type_attr.some
       /\ as_string(rep_type_attr.val).some
       /\ as_string(rep_type_attr.val).val \notin SolidRepresentationTypes)

\* The loop over the items of one representation, from the k-th item.
\* failed_item is the id of the item whose processing returned the error,
\* dispatched the ids of the items handed to process_representation_item, in
\* the order of the calls.
RECURSIVE ProcessItemsFrom(_, _, _, _, _, _)
ProcessItemsFrom(dec, b, items, k, combined_mesh, dispatched) ==
    IF k > Len(items)
    THEN [ret |-> Ok(combined_mesh), dec |-> dec, failed_item |-> None,
          dispatched |-> dispatched]
    ELSE
    Bind(process_representation_item(dec, b, items[k]), LAMBDA r :
    IF ~r.ret.ok
    THEN [ret |-> r.ret, dec |-> r.dec,
          failed_item |-> [some |-> TRUE, val |-> items[k].id],
          dispatched |-> Append(dispatched, items[k].id)]
    ELSE ProcessItemsFrom(r.dec, b, items, k + 1, merge(combined_mesh, r.ret.val),
                          Append(dispatched, items[k].id)))

\* The first steps of one turn of the loop over the representations: the
\* representation is skipped, or its items are resolved, or the routine returns.
RepresentationItems(dec, b, shape_rep, dispatched) ==
    IF SkipsRepresentation(shape_rep) THEN [done |-> FALSE, skip |-> TRUE]
    ELSE
    Bind(Get(shape_rep, 3), LAMBDA items_attr :
    IF ~items_attr.some
    THEN Return([ret |-> GeometryError("IfcShapeRepresentation missing Items"),
                 dec |-> dec, failed_item |-> None, dispatched |-> dispatched])
    ELSE
    Bind(resolve_ref_list(dec, b, items_attr.val), LAMBDA items :
    IF ~items.ret.ok
    THEN Return([ret |-> CoreError(items.ret), dec |-> items.dec, failed_item |-> None,
                 dispatched |-> dispatched])
    ELSE [done |-> FALSE, skip |-> FALSE, dec |-> items.dec, val |-> items.ret.val]))

RECURSIVE ProcessRepresentationsFrom(_, _, _, _, _, _)

\* The end of one turn of the loop over the representations: the `?` on the
\* items' result and the next representation.
RepresentationsNext(b, representations, k, r) ==
    IF ~r.ret.ok THEN r
    ELSE ProcessRepresentationsFrom(r.dec, b, representations, k + 1, r.ret.val,
                                    r.dispatched)

\* One turn of the loop over the representations, the items being resolved.
ProcessRepresentation(dec, b, representations, k, combined_mesh, dispatched, items) ==
    IF items.done THEN items.result
    ELSE IF items.skip
    THEN ProcessRepresentationsFrom(dec, b, representations, k + 1, combined_mesh,
                                    dispatched)
    ELSE RepresentationsNext(b, representations, k,
             ProcessItemsFrom(items.dec, b, items.val, 1, combined_mesh, dispatched))

\* The loop over the representations, from the k-th one.
ProcessRepresentationsFrom(dec, b, representations, k, combined_mesh, dispatched) ==
    IF k > Len(representations)
    THEN [ret |-> Ok(combined_mesh), dec |-> dec, failed_item |-> None,
          dispatched |-> dispatched]
    ELSE ProcessRepresentation(dec, b, representations, k, combined_mesh, dispatched,
             RepresentationItems(dec, b, representations[k], dispatched))

\* The first steps of process_element: the representations of the element
\* resolved, or what the routine returns without them.
ElementRepresentations(dec, b, element) ==
    Bind(Get(element, 6), LAMBDA representation_attr :
    IF ~representation_attr.some
    THEN Return([ret |-> GeometryError("Element has no representation attribute"),
                 dec |-> dec, failed_item |-> None, dispatched |-> <<>>])
    ELSE IF is_null(representation_attr.val)
    THEN Return([ret |-> Ok(MeshNew), dec |-> dec, failed_item |-> None,
                 dispatched |-> <<>>])
    ELSE
    Bind(resolve_ref(dec, b, representation_attr.val), LAMBDA representation :
    IF ~representation.ret.ok
    THEN Return([ret |-> CoreError(representation.ret), dec |-> representation.dec,
                 failed_item |-> None, dispatched |-> <<>>])
    ELSE IF ~representation.ret.val.some
    THEN Return([ret |-> GeometryError("Failed to resolve representation"),
                 dec |-> representation.dec, failed_item |-> None, dispatched |-> <<>>])
    ELSE IF representation.ret.val.val.ifc_type # IfcType("IFCPRODUCTDEFINITIONSHAPE")
    THEN Return([ret |-> GeometryError("Expected IfcProductDefinitionShape"),
                 dec |-> representation.dec, failed_item |-> None, dispatched |-> <<>>])
    ELSE
    Bind(Get(representation.ret.val.val, 2), LAMBDA representations_attr :
    IF ~representations_attr.some
    THEN Return([ret |-> GeometryError("IfcProductDefinitionShape missing Representations"),
                 dec |-> representation.dec, failed_item |-> None, dispatched |-> <<>>])
    ELSE
    Bind(resolve_ref_list(representation.dec, b, representations_attr.val),
         LAMBDA representations :
    IF ~representations.ret.ok
    THEN Return([ret |-> CoreError(representations.ret), dec |-> representations.dec,
                 failed_item |-> None, dispatched |-> <<>>])
    ELSE [done |-> FALSE, dec |-> representations.dec,
          val |-> representations.ret.val]))))

\* The last steps of process_element: the `?` on the loop's result and the
\* placement applied to the combined mesh.
PlaceCombined(b, element, combined) ==
    IF ~combined.ret.ok THEN combined
    ELSE
    Bind(apply_placement(combined.dec, b, element, combined.ret.val), LAMBDA placed :
    [ret |-> placed.ret, dec |-> placed.dec, failed_item |-> None,
     dispatched |-> combined.dispatched])

\* process_element from its loop over the representations on.
ProcessRepresentations(b, element, representations) ==
    IF representations.done THEN representations.result
    ELSE PlaceCombined(b, element,
             ProcessRepresentationsFrom(representations.dec, b, representations.val,
                                        1, MeshNew, <<>>))

\* GeometryRouter::process_element
process_element(dec, b, element) ==
    ProcessRepresentations(b, element, ElementRepresentations(dec, b, element))

\* The type names has_geometry_by_name lists.
GeometryElementNames ==
    {"IFCWALL", "IFCWALLSTANDARDCASE", "IFCSLAB", "IFCSLABSTANDARDCASE",
     "IFCSLABELEMENTEDCASE", "IFCBEAM", "IFCBEAMSTANDARDCASE", "IFCCOLUMN",
     "IFCCOLUMNSTANDARDCASE", "IFCROOF", "IFCSTAIR", "IFCSTAIRFLIGHT",
     "IFCRAMP", "IFCRAMPFLIGHT", "IFCRAILING", "IFCCURTAINWALL", "IFCPLATE",
     "IFCPLATESTANDARDCASE", "IFCMEMBER", "IFCMEMBERSTANDARDCASE",
     "IFCFOOTING", "IFCPILE", "IFCCOVERING", "IFCBUILDINGELEMENTPROXY",
     "IFCBUILDINGELEMENTPART", "IFCCHIMNEY", "IFCSHADINGDEVICE", "IFCDOOR",
     "IFCDOORSTANDARDCASE", "IFCWINDOW", "IFCWINDOWSTANDARDCASE",
     "IFCOPENINGELEMENT", "IFCOPENINGSTANDARDCASE", "IFCVOIDINGFEATURE",
     "IFCSURFACEFEATURE", "IFCPROJECTIONELEMENT", "IFCELEMENTASSEMBLY",
     "IFCREINFORCINGBAR", "IFCREINFORCINGMESH", "IFCREINFORCINGELEMENT",
     "IFCTENDON", "IFCTENDONANCHOR", "IFCTENDONCONDUIT", "IFCFASTENER",
     "IFCMECHANICALFASTENER", "IFCVIBRATIONISOLATOR", "IFCDISCRETEACCESSORY",
     "IFCPIPESEGMENT", "IFCPIPEFITTING", "IFCDUCTSEGMENT", "IFCDUCTFITTING",
     "IFCCABLESEGMENT", "IFCCABLECARRIERSEGMENT", "IFCFLOWSEGMENT",
     "IFCFLOWFITTING", "IFCFLOWTERMINAL", "IFCFLOWCONTROLLER",
     "IFCFLOWMOVINGDEVICE", "IFCFLOWSTORAGEDEVICE", "IFCFLOWTREATMENTDEVICE",
     "IFCENERGYCONVERSIONDEVICE", "IFCUNITARYEQUIPMENT", "IFCAIRTERMINAL",
     "IFCAIRTERMINALBOX", "IFCAIRTOAIRHEATRECOVERY", "IFCBOILER",
     "IFCBURNER", "IFCCHILLER", "IFCCOIL", "IFCCOMPRESSOR", "IFCCONDENSER",
     "IFCCOOLEDBEAM", "IFCCOOLINGTOWER", "IFCDAMPER", "IFCDUCTSILENCER",
     "IFCFAN", "IFCFILTER", "IFCFIRESUPPRESSIONTERMINAL", "IFCFLOWMETER",
     "IFCHEATEXCHANGER", "IFCHUMIDIFIER", "IFCINTERCEPTOR", "IFCJUNCTIONBOX",
     "IFCLAMP", "IFCLIGHTFIXTURE", "IFCMEDICALDEVICE", "IFCMOTORCONNECTION",
     "IFCOUTLET", "IFCPUMP", "IFCSANITARYTERMINAL", "IFCSENSOR",
     "IFCSPACEHEATER", "IFCSTACKTERMINAL", "IFCSWITCHINGDEVICE", "IFCTANK",
     "IFCTRANSFORMER", "IFCTUBEBUNDLE", "IFCUNITARYCONTROLELEMENTS",
     "IFCVALVE", "IFCWASTETERMINAL", "IFCDISTRIBUTIONELEMENT",
     "IFCDISTRIBUTIONCONTROLELEMENT", "IFCDISTRIBUTIONFLOWELEMENT",
     "IFCDISTRIBUTIONCHAMBERLEMENT", "IFCFURNISHINGELEMENT", "IFCFURNITURE",
     "IFCSYSTEMFURNITUREELEMENT", "IFCGEOGRAPHICELEMENT",
     "IFCTRANSPORTELEMENT", "IFCVIRTUALELEMENT"}

\* str::ends_with on a slice of the buffer.
EndsWith(bytes, suffix) ==
    /\ Len(bytes) >= Len(suffix)
    /\ Str(Slice(bytes, Len(bytes) - Len(suffix), Len(bytes))) = suffix

\* has_geometry_by_name
has_geometry_by_name(type_name) ==
    /\ ~EndsWith(type_name, "TYPE")
    /\ Str(type_name) \in GeometryElementNames

\* The ranges the caller's scanner loop hands to decode_at, from offset pos on:
\* those of the entities whose type name has_geometry_by_name accepts.
RECURSIVE ElementRangesFrom(_, _)
ElementRangesFrom(b, pos) ==
    LET e == next_entity(b, pos) IN
    IF ~e.some THEN {}
    ELSE (IF has_geometry_by_name(e.type_name)
          THEN {<<e.line_start, e.line_end>>} ELSE {})
         \cup ElementRangesFrom(b, e.position)

\* The call did not return: the thread panicked or ran out of stack.
Aborted ==
    /\ router_ret.op = "process_element"
    /\ router_ret.ret.kind \in {"Panic", "StackOverflow"}

\* GeometryRouter::new and an EntityDecoder over the buffer, in a build with
\* or without overflow checks.
InitRouter ==
    /\ content \in RouterBuffers
    /\ IdleThreads
    /\ IdleStream
    /\ IdleScanner
    /\ IdleMesh
    /\ \E d \in {DecoderNew, DecoderWithIndex(build_entity_index(content))} :
          /\ cache = d.cache
          /\ entity_index = d.entity_index
    /\ dec_ret = [op |-> "new"]
    /\ overflow_checks \in BOOLEAN
    /\ router_ret = [op |-> "none"]

\* The caller's loop body: decode_at on the range of an element, then
\* process_element on the entity.
ProcessElement ==
    /\ ~Aborted
    /\ \E range \in ElementRangesFrom(content, 0) :
       \E element \in {decode_at(Dec, content, range[1], range[2])} :
        /\ element.ret.ok
        /\ \E r \in {process_element(element.dec, content, element.ret.val)} :
           /\ router_ret' = [op |-> "process_element", element |-> element.ret.val.id,
                             ret |-> IF r.ret.ok THEN [ok |-> TRUE, kind |-> "Ok", val |-> r.ret.val]
                                     ELSE r.ret,
                             failed_item |-> r.failed_item,
                             dispatched |-> r.dispatched]
           /\ cache' = r.dec.cache
           /\ entity_index' = r.dec.entity_index
    /\ UNCHANGED <<content, scanner_vars, mesh_vars, dec_ret, overflow_checks,
                     threads_vars, stream_vars>>

\* EntityDecoder::clear_cache between two elements.
RouterClearCache ==
    /\ ~Aborted
    /\ cache # <<>>
    /\ cache' = clear_cache(Dec).cache
    /\ entity_index' = clear_cache(Dec).entity_index
    /\ UNCHANGED <<content, scanner_vars, mesh_vars, dec_ret, router_vars,
                     threads_vars, stream_vars>>

NextRouter == ProcessElement \/ RouterClearCache

SpecRouter == InitRouter /\ [][NextRouter]_vars

(***************************************************************************)
(* Properties of the router.                                               *)
(***************************************************************************)

\* C2: when the processing of one representation item returns an error (the
\* item's processor fails, or the item's type has neither a processor nor a
\* geometry category), process_element still returns a mesh.
C2_FailingItemKeepsElement ==
    (/\ router_ret.op = "process_element"
     /\ router_ret.failed_item.some
     /\ router_ret.ret.kind \in {"GeometryError", "CoreError"})
    => router_ret.ret.ok

\* C3: process_element returns for every reference graph of the buffer, the
\* graphs in which a placement or a clipping result refers to itself
\* included: no call ends with the stack exhausted.
C3_ProcessElementTerminates ==
    router_ret.op = "process_element" => router_ret.ret.kind # "StackOverflow"

(***************************************************************************)
(* The entity index as a function of the buffer (core/src/decoder.rs,      *)
(* wasm-bindings/src/api.rs): a decoder is made over the index of its      *)
(* buffer.                                                                 *)
(***************************************************************************)

\* The most statements a generated buffer is put together from.
MaxStatements == 3

\* Pieces of text the buffers are put together from: statements of the ids 1,
\* 2 and 3, an id written with a leading zero, a blank before the '=', a
\* statement without its ';', a string holding "#2=" and ';', and an id that
\* passes u32::MAX.
IndexPieces ==
    { <<"#", "1", "=", "A", ";">>,
      <<"#", "2", "=", "A", ";">>,
      <<"#", "1", "=", "B", ";">>,
      <<"#", "0", "1", "=", "A", ";">>,
      <<"#", "1", " ", "=", "A", ";">>,
      <<"#", "1", "=", "A">>,
      <<"#", "3", "=", "X", "(", "'", "a", ";", "#", "2", "=", "b", "'", ")", ";">>,
      <<"#", "4", "2", "9", "4", "9", "6", "7", "2", "9", "7", "=", "A", ";">> }

IndexBuffers ==
    ScanBuffers \cup DecoderBuffers
        \cup {Concat(parts) : parts \in UNION {[1..n -> IndexPieces] : n \in 0..MaxStatements}}

\* No decoder yet, over any of the buffers.
InitIndex ==
    /\ content \in IndexBuffers
    /\ IdleThreads
    /\ IdleStream
    /\ IdleScanner
    /\ IdleMesh
    /\ IdleDecoder
    /\ IdleRouter

\* let entity_index = build_entity_index(&content);
\* let decoder = EntityDecoder::with_index(&content, entity_index);
WithIndex ==
    /\ ~entity_index.some
    /\ \E d \in {DecoderWithIndex(build_entity_index(content))} :
          /\ cache' = d.cache
          /\ entity_index' = d.entity_index
    /\ dec_ret' = [op |-> "with_index"]
    /\ UNCHANGED <<content, scanner_vars, mesh_vars, router_vars,
                     threads_vars, stream_vars>>

NextIndex == WithIndex

SpecIndex == InitIndex /\ [][NextIndex]_vars

(***************************************************************************)
(* Properties of the entity index                                          *)
(***************************************************************************)

\* The offset after the digits that follow the '#' at s.
IdEnd(b, s) == TakeWhile(b, s + 1, Digits)

\* '#', one or more digits, '=', and a ';' somewhere after it, from offset s.
LooksLikeStatement(b, s) ==
    /\ IsChar(b, s, "#")
    /\ IdEnd(b, s) > s + 1
    /\ IsChar(b, IdEnd(b, s), "=")
    /\ \E t \in IdEnd(b, s)..(Len(b) - 1) : At(b, t) = ";"

\* The offset just past the first ';' after the '=' of the statement at s.
StatementEnd(b, s) == FirstOffset(";", b, IdEnd(b, s)) + 1

\* The offsets where the statements of the buffer start: a statement does not
\* start inside an earlier one.
StatementStarts(b) ==
    LET starts[s \in 0..(Len(b) - 1)] ==
            /\ LooksLikeStatement(b, s)
            /\ \A t \in 0..(s - 1) : starts[t] => StatementEnd(b, t) <= s
    IN  {s \in 0..(Len(b) - 1) : starts[s]}

\* The id of the statement at s as it is written, leading zeros dropped.
WrittenId(b, s) ==
    LET e == IdEnd(b, s)
        nonzero == {i \in (s + 1)..(e - 1) : At(b, i) # "0"}
    IN  IF nonzero = {} THEN <<"0">>
        ELSE Slice(b, CHOOSE i \in nonzero : \A j \in nonzero : i <= j, e)

\* Every id written in the buffer is a u32.
WrittenIdsFit(b) ==
    \A s \in StatementStarts(b) : ParseU32Checked(b, s + 1, IdEnd(b, s), 0).some

\* The id of the statement at s as a u32.
IdOf(b, s) == ParseU32Checked(b, s + 1, IdEnd(b, s), 0).val

\* The statement at s is the last one of its id.
LastOfItsId(b, s) ==
    \A t \in StatementStarts(b) : WrittenId(b, t) = WrittenId(b, s) => t <= s

\* C11: the entity index of a buffer whose ids are u32 holds exactly the ids of
\* the buffer's statements ('#' digits '=' ... ';'), each mapped to (offset of
\* the '#', offset just past the ';') of the last statement of that id in
\* byte order.
C11_IndexMapsLastOccurrence ==
    (entity_index.some /\ WrittenIdsFit(content)) =>
        LET index == entity_index.val
            starts == StatementStarts(content)
        IN  /\ DOMAIN index = {IdOf(content, s) : s \in starts}
            /\ \A s \in starts :
                  LastOfItsId(content, s) =>
                      index[IdOf(content, s)] = <<s, StatementEnd(content, s)>>

\* An index built over a buffer in which an id has two statements and another
\* id one, the entry of the first id being its later statement.
C11_Witness ==
    /\ entity_index.some
    /\ WrittenIdsFit(content)
    /\ dec_ret.op = "with_index"
    /\ \E s, t, u \in StatementStarts(content) :
          /\ s < t
          /\ WrittenId(content, s) = WrittenId(content, t)
          /\ WrittenId(content, u) # WrittenId(content, s)
          /\ entity_index.val[IdOf(content, t)] = <<t, StatementEnd(content, t)>>
          /\ IdOf(content, u) \in DOMAIN entity_index.val

\* The ids a scanner pass over the buffer returns for exactly one entity.
OnceIds(b) ==
    LET ranges == ScannerRangesFrom(b, 0)
        IdAt(r) == next_entity(b, r[1]).id
    IN  {IdAt(r) : r \in {r \in ranges : \A q \in ranges : IdAt(q) = IdAt(r) => q = r}}

\* C12: for an id that occurs exactly once in the buffer, decode_by_id returns
\* the same result from the decoder as it is (cache populated or not), from
\* that decoder after clear_cache, and from a fresh decoder.
C12_CachedEqualsFreshDecode ==
    \A id \in OnceIds(content) :
        LET fresh == decode_by_id(DecoderNew, content, id).ret IN
        /\ decode_by_id(Dec, content, id).ret = fresh
        /\ decode_by_id(clear_cache(Dec), content, id).ret = fresh

\* The entity of id in the buffer, decoded on its own.
EntityOf(b, id) == decode_by_id(DecoderNew, b, id).ret.val

\* The ids of the references in a list attribute (none for another attribute).
RefIdsOf(attr) ==
    IF attr.kind = "List"
    THEN {attr.items[k].id : k \in {k \in 1..Len(attr.items) : IsEntityRef(attr.items[k])}}
    ELSE {}

\* The shape representations of the element whose RepresentationType is one of
\* the solid kinds.
KeptRepresentations(b, element_id) ==
    LET shape == EntityOf(b, EntityOf(b, element_id).attributes[7].id)
        reps == {EntityOf(b, id) : id \in RefIdsOf(shape.attributes[3])}
    IN  {rep \in reps :
            /\ rep.ifc_type = IfcType("IFCSHAPEREPRESENTATION")
            /\ rep.attributes[3].kind = "String"
            /\ rep.attributes[3].s \in SolidRepresentationTypes}

\* The items of those representations.
KeptItems(b, element_id) ==
    UNION {RefIdsOf(rep.attributes[4]) : rep \in KeptRepresentations(b, element_id)}

\* C13: every item process_element hands to a processor is an item of an
\* IfcShapeRepresentation whose RepresentationType is a string among Body,
\* SweptSolid, Brep, CSG, Clipping, SurfaceModel, Tessellation,
\* MappedRepresentation, AdvancedSweptSolid; the items of a representation of
\* another type, of a null type or of a type that is no string are not.
C13_OnlySolidRepresentationsDispatched ==
    router_ret.op = "process_element" =>
        \A k \in 1..Len(router_ret.dispatched) :
            router_ret.dispatched[k] \in KeptItems(content, router_ret.element)

\* The mesh of one item, processed on its own.
ItemMesh(b, item_id) ==
    process_representation_item(DecoderNew, b, EntityOf(b, item_id)).ret.val

\* The number of vertices of the first k meshes of a sequence.
RECURSIVE VerticesBefore(_, _)
VerticesBefore(meshes, k) ==
    IF k = 0 THEN 0
    ELSE VerticesBefore(meshes, k - 1) + Len(meshes[k].positions) \div 3

\* The meshes one after the other: positions and normals joined, the indices
\* of each mesh raised by the number of vertices before it.
RECURSIVE Concatenation(_, _)
Concatenation(meshes, k) ==
    IF k = 0 THEN MeshNew
    ELSE LET before == Concatenation(meshes, k - 1)
             m == meshes[k]
         IN  [positions |-> before.positions \o m.positions,
              normals |-> before.normals \o m.normals,
              indices |-> before.indices \o
                  [j \in 1..Len(m.indices) |->
                      m.indices[j] + VerticesBefore(meshes, k - 1)]]

\* The items of the element in the order of the Representations list and,
\* within a representation, of its Items list, over the representations
\* process_element does not skip.
ItemsInListOrder(b, element_id) ==
    LET shape == EntityOf(b, EntityOf(b, element_id).attributes[7].id)
        RefSeq(attr) == SelectSeq(attr.items, IsEntityRef)
        reps == RefSeq(shape.attributes[3])
        ItemsOf(k) ==
            IF SkipsRepresentation(EntityOf(b, reps[k].id)) THEN <<>>
            ELSE [j \in 1..Len(RefSeq(EntityOf(b, reps[k].id).attributes[4])) |->
                     RefSeq(EntityOf(b, reps[k].id).attributes[4])[j].id]
    IN  Concat([k \in 1..Len(reps) |-> ItemsOf(k)])

\* C14: the mesh process_element returns is the concatenation of the meshes of
\* the items, in the order of the Representations list and within each
\* representation of its Items list, placed by the element's placement: the
\* vertices of an item follow those of the items before it and its indices
\* are raised by their vertex count.
C14_MeshIsConcatenationInListOrder ==
    (router_ret.op = "process_element" /\ router_ret.ret.ok
        /\ router_ret.dispatched # <<>>) =>
        LET items == ItemsInListOrder(content, router_ret.element)
            meshes == [k \in 1..Len(items) |-> ItemMesh(content, items[k])]
            joined == Concatenation(meshes, Len(meshes))
            element == EntityOf(content, router_ret.element)
        IN  /\ router_ret.dispatched = items
            /\ router_ret.ret.val =
                  apply_placement(DecoderNew, content, element, joined).ret.val
            /\ router_ret.ret.val.indices = joined.indices
            /\ Len(router_ret.ret.val.positions) = Len(joined.positions)

\* An element with two processed representations of two items each, the items
\* differing in their vertex counts.
C14_Witness ==
    /\ router_ret.op = "process_element"
    /\ router_ret.ret.ok
    /\ Len(router_ret.dispatched) = 4
    /\ router_ret.dispatched[1] # router_ret.dispatched[2]
    /\ Len(ItemMesh(content, router_ret.dispatched[1]).positions)
          # Len(ItemMesh(content, router_ret.dispatched[2]).positions)
    /\ Len(router_ret.ret.val.indices) = 21

(***************************************************************************)
(* merge_all into an empty mesh (geometry/src/mesh.rs): a slice of meshes  *)
(* merged at once, or group by group and then the groups.                  *)
(***************************************************************************)

\* The longest slice of meshes merged into an empty mesh.
MaxMergeInputs == 3

\* Mesh::new followed by add_vertex for each point and add_triangle for each
\* index triple.
RECURSIVE BuildMesh(_, _)
BuildMesh(points, triangles) ==
    IF triangles # <<>>
    THEN LET t == triangles[Len(triangles)] IN
         add_triangle(BuildMesh(points, SubSeq(triangles, 1, Len(triangles) - 1)),
                      t[1], t[2], t[3])
    ELSE IF points # <<>>
    THEN add_vertex(BuildMesh(SubSeq(points, 1, Len(points) - 1), <<>>),
                    points[Len(points)], <<0, 0, 1>>)
    ELSE MeshNew

\* The meshes handed to merge_all: an empty one, one of a single vertex and a
\* degenerate triangle, one of three vertices and two triangles, one of a
\* vertex without triangle, and the mesh of the crate's test_merge, whose
\* triangle names vertices the mesh does not have.
MergeInputs ==
    { MeshNew,
      BuildMesh(<< <<0, 0, 0>> >>, << <<0, 0, 0>> >>),
      BuildMesh(<< <<1, 0, 0>>, <<0, 1, 0>>, <<1, 1, 0>> >>,
                << <<0, 1, 2>>, <<2, 1, 0>> >>),
      BuildMesh(<< <<7, 8, 9>> >>, <<>>),
      BuildMesh(<< <<1, 0, 0>> >>, << <<0, 1, 2>> >>) }

\* m.merge_all(&meshes) on a mesh m that is empty
MergeAllIntoEmpty ==
    \E n \in 0..MaxMergeInputs :
    \E meshes \in [1..n -> MergeInputs] :
        /\ mesh["a"] = MeshNew
        /\ mesh' = [mesh EXCEPT !["a"] = merge_all(mesh["a"], meshes)]
        /\ mesh_op' = [op |-> "merge_all_into_empty", meshes |-> meshes]
        /\ UNCHANGED <<content, scanner_vars, decoder_vars, router_vars, mesh_unchecked,
                     threads_vars, stream_vars>>

\* The first k meshes merged into one empty mesh, the others into another,
\* and the two results merged into a third.
MergeGroups ==
    \E n \in 0..MaxMergeInputs :
    \E meshes \in [1..n -> MergeInputs] :
    \E k \in 0..n :
        LET first == merge_all(MeshNew, SubSeq(meshes, 1, k))
            second == merge_all(MeshNew, SubSeq(meshes, k + 1, n))
        IN
        /\ mesh["a"] = MeshNew
        /\ mesh' = [mesh EXCEPT !["a"] = merge_all(mesh["a"], <<first, second>>)]
        /\ mesh_op' = [op |-> "merge_groups", meshes |-> meshes, split |-> k]
        /\ UNCHANGED <<content, scanner_vars, decoder_vars, router_vars, mesh_unchecked,
                     threads_vars, stream_vars>>

NextMergeAll == MeshNewOp \/ MergeAllIntoEmpty \/ MergeGroups

SpecMergeAll == InitMesh /\ [][NextMergeAll]_vars

\* The position of vertex i of m.
VertexAt(m, i) == SubSeq(m.positions, 3 * i + 1, 3 * i + 3)

\* Triangle k of m as its three vertex positions.
TriangleAt(m, k) ==
    <<VertexAt(m, m.indices[3 * k - 2]), VertexAt(m, m.indices[3 * k - 1]),
      VertexAt(m, m.indices[3 * k])>>

\* The multiset of the triangles of m.
TriangleBag(m) ==
    LET n == Len(m.indices) \div 3 IN
    [t \in {TriangleAt(m, k) : k \in 1..n} |->
        Cardinality({k \in 1..n : TriangleAt(m, k) = t})]

\* The union, with multiplicities, of the triangles of the meshes.
RECURSIVE TriangleBagOfAll(_)
TriangleBagOfAll(meshes) ==
    IF meshes = <<>> THEN EmptyBag
    ELSE TriangleBag(Head(meshes)) (+) TriangleBagOfAll(Tail(meshes))

\* C15: merge_all of meshes with valid indices into an empty mesh, in any
\* order of the meshes and with any grouping (groups merged first, then the
\* group results), yields the multiset of triangles, each as its three vertex
\* positions, that is the union of the triangles of the meshes.
C15_MergeAllTrianglesAreUnion ==
    ( /\ mesh_op.op \in {"merge_all_into_empty", "merge_groups"}
      /\ \A k \in 1..Len(mesh_op.meshes) : IndicesValid(mesh_op.meshes[k]) )
    => /\ IndicesValid(mesh["a"])
       /\ TriangleBag(mesh["a"]) = TriangleBagOfAll(mesh_op.meshes)

\* Three meshes, two of them different and with triangles, merged in two
\* groups.
C15_Witness ==
    /\ mesh_op.op = "merge_groups"
    /\ Len(mesh_op.meshes) = 3
    /\ mesh_op.split = 1
    /\ \A k \in 1..3 : IndicesValid(mesh_op.meshes[k]) /\ mesh_op.meshes[k].indices # <<>>
    /\ mesh_op.meshes[1] # mesh_op.meshes[2]
    /\ mesh_op.meshes[1].positions # <<>>
    /\ triangle_count(mesh["a"]) >= 4

\* The element's Representation is null, or no representation that
\* process_element processes has an item.
NothingToProcess(b, element_id) ==
    \/ is_null(EntityOf(b, element_id).attributes[7])
    \/ ItemsInListOrder(b, element_id) = <<>>

\* C16: process_element returns an empty mesh (no vertices, no triangles) and
\* no error when the element's Representation is null and when the Items list
\* of every processed shape representation is empty.
C16_NothingToProcessGivesEmptyMesh ==
    (router_ret.op = "process_element"
        /\ NothingToProcess(content, router_ret.element)) =>
        /\ router_ret.ret.ok
        /\ router_ret.ret.val = MeshNew

(***************************************************************************)
(* Two decoders over one buffer, each driven by a thread of its own        *)
(***************************************************************************)
Threads == {1, 2}

\* What a call on decoder t leaves when the decoders shared their cache.
AfterCall_SharedCache(ds, t, dec) ==
    [i \in DOMAIN ds |-> IF i = t THEN dec ELSE [ds[i] EXCEPT !.cache = dec.cache]]

\* An EntityDecoder owns its cache and its index and borrows the text, and
\* its calls take `&mut self`: a call on decoder t leaves that decoder as the
\* call made it and every other decoder as it was.
AfterCall(ds, t, dec) == [ds EXCEPT ![t] = dec]

\* What the last call of a thread was, what it returned, what the same call
\* returns from the decoder that is given this thread's calls only, and the
\* decoders the other threads held when the call began.
ThreadRet(op, t, r, ra) ==
    [op |-> op, thread |-> t, ret |-> r.ret, alone_ret |-> ra.ret,
     others |-> [i \in Threads \ {t} |-> decoders[i]]]

\* EntityDecoder::new(content) or with_index(content, index.clone()) in each
\* thread, over the same text and the same index.
InitThreads ==
    /\ content \in DecoderBuffers
    /\ IdleScanner
    /\ IdleMesh
    /\ IdleDecoder
    /\ IdleRouter
    /\ IdleStream
    /\ \E index \in {build_entity_index(content)} :
          decoders \in [Threads -> {DecoderNew, DecoderWithIndex(index)}]
    /\ alone = decoders
    /\ thread_ret = [op |-> "new"]

\* decoder.decode_at(start, end) in thread t
ThreadDecodeAt(t) ==
    \E range \in DecodeRanges(content) :
    \E r \in {decode_at(decoders[t], content, range[1], range[2])} :
    \E ra \in {decode_at(alone[t], content, range[1], range[2])} :
        /\ decoders' = AfterCall(decoders, t, r.dec)
        /\ alone' = [alone EXCEPT ![t] = ra.dec]
        /\ thread_ret' = ThreadRet("decode_at", t, r, ra)
        /\ UNCHANGED <<content, scanner_vars, mesh_vars, decoder_vars, router_vars,
                       stream_vars>>

\* decoder.decode_by_id(id) in thread t
ThreadDecodeById(t) ==
    \E id \in DecoderIds(content) :
    \E r \in {decode_by_id(decoders[t], content, id)} :
    \E ra \in {decode_by_id(alone[t], content, id)} :
        /\ decoders' = AfterCall(decoders, t, r.dec)
        /\ alone' = [alone EXCEPT ![t] = ra.dec]
        /\ thread_ret' = ThreadRet("decode_by_id", t, r, ra)
        /\ UNCHANGED <<content, scanner_vars, mesh_vars, decoder_vars, router_vars,
                       stream_vars>>

\* decoder.resolve_ref(&attr) in thread t
ThreadResolveRef(t) ==
    \E attr \in SampleAttrs :
    \E r \in {resolve_ref(decoders[t], content, attr)} :
    \E ra \in {resolve_ref(alone[t], content, attr)} :
        /\ decoders' = AfterCall(decoders, t, r.dec)
        /\ alone' = [alone EXCEPT ![t] = ra.dec]
        /\ thread_ret' = ThreadRet("resolve_ref", t, r, ra)
        /\ UNCHANGED <<content, scanner_vars, mesh_vars, decoder_vars, router_vars,
                       stream_vars>>

\* decoder.clear_cache() in thread t
ThreadClearCache(t) ==
    /\ decoders[t].cache # <<>>
    /\ decoders' = AfterCall(decoders, t, clear_cache(decoders[t]))
    /\ alone' = [alone EXCEPT ![t] = clear_cache(alone[t])]
    /\ thread_ret' = ThreadRet("clear_cache", t, [ret |-> None], [ret |-> None])
    /\ UNCHANGED <<content, scanner_vars, mesh_vars, decoder_vars, router_vars,
                   stream_vars>>

\* The threads run as the scheduler lets them: any thread makes the next call.
NextThreads ==
    \E t \in Threads :
        \/ ThreadDecodeAt(t)
        \/ ThreadDecodeById(t)
        \/ ThreadResolveRef(t)
        \/ ThreadClearCache(t)

SpecThreads == InitThreads /\ [][NextThreads]_vars

Some(value) == [some |-> TRUE, val |-> value]

\* StreamConfig::default().skip_types
DefaultSkipTypes ==
    {IfcType("IFCOWNERHISTORY"), IfcType("IFCPERSON"), IfcType("IFCORGANIZATION"),
     IfcType("IFCAPPLICATION")}

\* ParserState::new(content, config); the clock readings (start_time) are
\* left out, no event's kind or order depends on them.
ParserStateNew(config) ==
    [position |-> 0, config |-> config, started |-> FALSE, entities_scanned |-> 0]

\* An event with the state it leaves.
Yield(event, st) == [panic |-> FALSE, event |-> Some(event), state |-> st]

\* ParserState::next_event: the event (or None), the state the call leaves,
\* or the panic of `%` with a progress_interval of 0.  An entity of a skipped
\* type makes the call start over; a counted entity yields Progress in place
\* of its EntityScanned event when the count is a multiple of the interval;
\* once the scanner returns None, every call yields Completed.
RECURSIVE next_event(_, _)
next_event(st, b) ==
    IF ~st.started
    THEN Yield([kind |-> "Started", file_size |-> Len(b)], [st EXCEPT !.started = TRUE])
    ELSE
    LET e == next_entity(b, st.position)
        ifc_type == IfcTypeFromStr(e.type_name)
        scanned == [st EXCEPT !.position = e.position]
        counted == [scanned EXCEPT !.entities_scanned = @ + 1]
    IN
    IF e.panic THEN [panic |-> TRUE]
    ELSE IF ~e.some
    THEN Yield([kind |-> "Completed", entity_count |-> st.entities_scanned,
                triangle_count |-> 0], st)
    ELSE IF ifc_type \in st.config.skip_types THEN next_event(scanned, b)
    ELSE IF st.config.only_types.some /\ ifc_type \notin st.config.only_types.val
    THEN next_event(scanned, b)
    ELSE IF st.config.progress_interval = 0 THEN [panic |-> TRUE]
    ELSE IF counted.entities_scanned % st.config.progress_interval = 0
    THEN Yield([kind |-> "Progress", phase |-> "Scanning entities",
                entities_processed |-> counted.entities_scanned, total_entities |-> 0],
               counted)
    ELSE Yield([kind |-> "EntityScanned", id |-> e.id, ifc_type |-> ifc_type,
                position |-> e.line_start], counted)

\* The most events a stream is polled for.
MaxEvents == 7

\* test_parse_stream_basic, with short argument lists:
\*   #1=IFCPROJECT($);
\*   #2=IFCWALL($);
\*   #3=IFCDOOR($);
StreamBasic ==
    <<"#", "1", "=", "I", "F", "C", "P", "R", "O", "J", "E", "C", "T", "(", "$",
      ")", ";", "#", "2", "=", "I", "F", "C", "W", "A", "L", "L", "(", "$", ")",
      ";", "#", "3", "=", "I", "F", "C", "D", "O", "O", "R", "(", "$", ")", ";">>

\* test_parse_stream_skip_types, with short argument lists:
\*   #1=IFCPROJECT($);
\*   #2=IFCOWNERHISTORY($);
\*   #3=IFCWALL($);
StreamSkip ==
    <<"#", "1", "=", "I", "F", "C", "P", "R", "O", "J", "E", "C", "T", "(", "$",
      ")", ";", "#", "2", "=", "I", "F", "C", "O", "W", "N", "E", "R", "H", "I",
      "S", "T", "O", "R", "Y", "(", "$", ")", ";", "#", "3", "=", "I", "F", "C",
      "W", "A", "L", "L", "(", "$", ")", ";">>

\* A statement without '=' between two entities:
\*   #1=IFCWALL($);
\*   #2 IFCWALL($);
\*   #3=IFCWALL($);
StreamMalformed ==
    <<"#", "1", "=", "I", "F", "C", "W", "A", "L", "L", "(", "$", ")", ";", "#",
      "2", " ", "I", "F", "C", "W", "A", "L", "L", "(", "$", ")", ";", "#", "3",
      "=", "I", "F", "C", "W", "A", "L", "L", "(", "$", ")", ";">>

\* Types the schema does not name, and four entities:
\*   #1=IFCFOO($);
\*   #2=IFCWALL($);
\*   #3=IFCBAR($);
\*   #4=IFCWALL($);
StreamUnknown ==
    <<"#", "1", "=", "I", "F", "C", "F", "O", "O", "(", "$", ")", ";", "#", "2",
      "=", "I", "F", "C", "W", "A", "L", "L", "(", "$", ")", ";", "#", "3", "=",
      "I", "F", "C", "B", "A", "R", "(", "$", ")", ";", "#", "4", "=", "I", "F",
      "C", "W", "A", "L", "L", "(", "$", ")", ";">>

StreamBuffers == {<<>>, StreamBasic, StreamSkip, StreamMalformed, StreamUnknown}

\* progress_interval: every entity, every second entity, the default, and 0.
StreamIntervals == {0, 1, 2, 100}

StreamConfigs ==
    [progress_interval : StreamIntervals,
     skip_types : {{}, {IfcType("IFCOWNERHISTORY")}, DefaultSkipTypes},
     only_types : {None, Some({IfcType("IFCWALL")})}]

\* parse_stream(content, config)
InitStream ==
    /\ content \in StreamBuffers
    /\ IdleScanner
    /\ IdleMesh
    /\ IdleDecoder
    /\ IdleRouter
    /\ IdleThreads
    /\ \E config \in StreamConfigs : state = ParserStateNew(config)
    /\ events = <<>>
    /\ stream_ended = FALSE

\* The stream has panicked.
Panicked == events # <<>> /\ events[Len(events)].kind = "Panic"

\* stream.next().await: unfold calls next_event on the state; Some(event) is
\* yielded and the state kept, None ends the stream.
Poll ==
    /\ ~stream_ended
    /\ ~Panicked
    /\ Len(events) < MaxEvents
    /\ \E r \in {next_event(state, content)} :
          IF r.panic
          THEN /\ events' = Append(events, [kind |-> "Panic"])
               /\ UNCHANGED <<state, stream_ended>>
          ELSE IF r.event.some
          THEN /\ events' = Append(events, r.event.val)
               /\ state' = r.state
               /\ UNCHANGED stream_ended
          ELSE /\ stream_ended' = TRUE
               /\ state' = r.state
               /\ UNCHANGED events
    /\ UNCHANGED <<content, scanner_vars, mesh_vars, decoder_vars, router_vars,
                   threads_vars>>

NextStream == Poll

SpecStream == InitStream /\ [][NextStream]_vars

(***************************************************************************)
(* Properties of the event stream                                          *)
(***************************************************************************)
\* The offsets, in order, of the events of a kind.
EventsOfKind(kind) == SelectSeq(events, LAMBDA e : e.kind = kind)

\* C18: the events of a stream start with exactly one Started event, go on
\* with the scan events, and end with exactly one Completed event, after
\* which the stream yields nothing more.
C18_CompletedOnceAndLast ==
    /\ events # <<>> => events[1].kind = "Started"
    /\ \A i \in 2..Len(events) : events[i].kind # "Started"
    /\ \A i \in 1..Len(events) : events[i].kind = "Completed" => i = Len(events)

\* The entities a pass of the scanner returns from pos on whose type the
\* configuration selects, as (id, type, offset).
RECURSIVE SelectedFrom(_, _, _)
SelectedFrom(b, pos, config) ==
    LET e == next_entity(b, pos)
        ifc_type == IfcTypeFromStr(e.type_name)
        selected == /\ ifc_type \notin config.skip_types
                    /\ config.only_types.some => ifc_type \in config.only_types.val
    IN  IF ~e.some THEN <<>>
        ELSE (IF selected
              THEN <<[kind |-> "EntityScanned", id |-> e.id, ifc_type |-> ifc_type,
                      position |-> e.line_start]>>
              ELSE <<>>) \o SelectedFrom(b, e.position, config)

\* The stream has yielded Completed, once.
JustCompleted ==
    /\ events # <<>>
    /\ events[Len(events)].kind = "Completed"
    /\ Len(EventsOfKind("Completed")) = 1

\* C19: with a progress_interval of 1 or more, a stream that has completed
\* has yielded one EntityScanned event for each entity whose type the
\* configuration selects, in byte order, and no other, and their number is
\* the entity_count of Completed.
C19_EntityScannedForEachSelected ==
    (state.config.progress_interval >= 1 /\ JustCompleted) =>
        /\ EventsOfKind("EntityScanned") = SelectedFrom(content, 0, state.config)
        /\ Len(EventsOfKind("EntityScanned")) = events[Len(events)].entity_count

(***************************************************************************)
(* FacetedBrepProcessor: the loops of the face bounds                      *)
(***************************************************************************)
\* points.reverse()
RECURSIVE Reverse(_)
Reverse(s) == IF s = <<>> THEN <<>> ELSE Append(Reverse(Tail(s)), Head(s))

\* The loop of extract_loop_points over the resolved points, from the k-th:
\* None when a point has no coordinate list.
RECURSIVE LoopPointsFrom(_, _, _)
LoopPointsFrom(points, k, polygon_points) ==
    IF k > Len(points) THEN Some(polygon_points)
    ELSE
    Bind(Get(points[k], 0), LAMBDA coords_attr :
    IF ~coords_attr.some THEN None
    ELSE
    Bind(as_list(coords_attr.val), LAMBDA coords :
    IF ~coords.some THEN None
    ELSE LoopPointsFrom(points, k + 1,
             Append(polygon_points,
                    <<FloatAt(coords.val, 0, Zero), FloatAt(coords.val, 1, Zero),
                      FloatAt(coords.val, 2, Zero)>>))))

\* FacetedBrepProcessor::extract_loop_points
extract_loop_points(dec, b, loop_entity) ==
    Bind(Get(loop_entity, 0), LAMBDA polygon_attr :
    IF ~polygon_attr.some THEN [ret |-> None, dec |-> dec]
    ELSE
    Bind(resolve_ref_list(dec, b, polygon_attr.val), LAMBDA r :
    IF ~r.ret.ok THEN [ret |-> None, dec |-> r.dec]
    ELSE
    Bind(LoopPointsFrom(r.ret.val, 1, <<>>), LAMBDA polygon_points :
    IF polygon_points.some /\ Len(polygon_points.val) >= 3
    THEN [ret |-> polygon_points, dec |-> r.dec]
    ELSE [ret |-> None, dec |-> r.dec])))

\* The orientation of a bound: attribute 1 when it is an enum whose string
\* is not ".F.", and true for every other attribute and for none.  (The
\* string of an Enum is what stands between the dots.)
BoundOrientation(bound) ==
    Bind(Get(bound, 1), LAMBDA v :
    IF v.some /\ v.val.kind = "Enum" THEN v.val.s # ".F." ELSE TRUE)

\* IfcType::as_str
IfcTypeAsStr(ifc_type) == IF ifc_type.kind = "Known" THEN ifc_type.name ELSE "UNKNOWN"

\* The names as_str returns that contain "OUTER" or "outer": there is none.
OuterNames == {}

\* One turn of the loop over the bounds of a face: the outer bound and the
\* holes it leaves, and, for a bound whose loop was taken, its Orientation
\* attribute, the points as extract_loop_points returned them (loop_points)
\* and the points as they were stored.
BoundStep(dec, b, bound, outer, holes, taken) ==
    Bind(Get(bound, 0), LAMBDA loop_attr :
    IF ~loop_attr.some
    THEN [dec |-> dec, outer |-> outer, holes |-> holes, taken |-> taken]
    ELSE
    Bind(resolve_ref(dec, b, loop_attr.val), LAMBDA r :
    IF ~(r.ret.ok /\ r.ret.val.some)
    THEN [dec |-> r.dec, outer |-> outer, holes |-> holes, taken |-> taken]
    ELSE
    Bind(extract_loop_points(r.dec, b, r.ret.val.val), LAMBDA p :
    IF ~p.ret.some
    THEN [dec |-> p.dec, outer |-> outer, holes |-> holes, taken |-> taken]
    ELSE
    Bind(IF ~BoundOrientation(bound) THEN Reverse(p.ret.val) ELSE p.ret.val,
         LAMBDA points :
    Bind(IfcTypeAsStr(bound.ifc_type) \in OuterNames, LAMBDA is_outer :
    [dec |-> p.dec,
     outer |-> IF is_outer \/ ~outer.some THEN Some(points) ELSE outer,
     holes |-> IF is_outer \/ ~outer.some
               THEN (IF outer.some /\ is_outer THEN Append(holes, outer.val) ELSE holes)
               ELSE Append(holes, points),
     taken |-> Append(taken, [bound |-> bound.id, ifc_type |-> bound.ifc_type,
                              orientation |-> Get(bound, 1),
                              loop_points |-> p.ret.val, points |-> points])])))))

\* The loop over the bounds of a face, from the k-th bound.
RECURSIVE BoundsFrom(_, _, _, _, _)
BoundsFrom(dec, b, bounds, k, acc) ==
    IF k > Len(bounds) \/ Len(acc.taken) > Len(b) THEN [acc EXCEPT !.dec = dec]
    ELSE Bind(BoundStep(dec, b, bounds[k], acc.outer, acc.holes, acc.taken),
              LAMBDA step : BoundsFrom(step.dec, b, bounds, k + 1, step))

\* The points of a face as they are pushed to positions: the outer bound and
\* the holes when the triangulation succeeds, the outer bound alone when it
\* fails.
FacePoints(outer_points, hole_points, triangulated) ==
    IF triangulated THEN outer_points \o Concat(hole_points) ELSE outer_points

\* One turn of the loop over the faces: the decoder, the positions and the
\* bounds taken so far.  failed holds the faces whose triangulation fails.
\* faces lists, for each face whose bounds were resolved, the bounds whose
\* loops were taken and outer_bound_points and hole_points after the loop
\* over the bounds.
FaceStep(dec, b, face, k, failed, positions, taken, faces) ==
    Bind(Get(face, 0), LAMBDA bounds_attr :
    IF ~bounds_attr.some
    THEN [dec |-> dec, positions |-> positions, taken |-> taken, faces |-> faces]
    ELSE
    Bind(resolve_ref_list(dec, b, bounds_attr.val), LAMBDA bounds :
    IF ~bounds.ret.ok
    THEN [dec |-> bounds.dec, positions |-> positions, taken |-> taken, faces |-> faces]
    ELSE
    Bind(BoundsFrom(bounds.dec, b, bounds.ret.val, 1,
                    [dec |-> bounds.dec, outer |-> None, holes |-> <<>>, taken |-> <<>>]),
         LAMBDA l :
    Bind(Append(faces, [face |-> face.id, bounds |-> l.taken, outer |-> l.outer,
                        holes |-> l.holes]), LAMBDA seen :
    IF ~l.outer.some
    THEN [dec |-> l.dec, positions |-> positions, taken |-> taken \o l.taken,
          faces |-> seen]
    ELSE [dec |-> l.dec,
          positions |-> positions \o
                        Concat(FacePoints(l.outer.val, l.holes, k \notin failed)),
          taken |-> taken \o l.taken, faces |-> seen]))))

\* The loop over the faces, from the k-th face.
RECURSIVE FacesFrom(_, _, _, _, _, _)
FacesFrom(dec, b, faces, k, failed, acc) ==
    IF k > Len(faces) \/ Len(acc.taken) > Len(b) THEN [acc EXCEPT !.dec = dec]
    ELSE Bind(FaceStep(dec, b, faces[k], k, failed, acc.positions, acc.taken,
                       acc.faces),
              LAMBDA step : FacesFrom(step.dec, b, faces, k + 1, failed, step))

\* FacetedBrepProcessor::process.  The mesh's positions are the points of
\* the faces in order (the coordinates of the buffers are small integers,
\* which `as f32` keeps); its indices are those of the triangulation, which
\* is left out: failed names the faces for which it returns an error.  taken
\* lists the bounds whose loops were taken, with their points before and
\* after the orientation was applied; faces lists the outer bound and the
\* holes of each face.
FacetedBrepProcess(dec, b, entity, failed) ==
    Bind(Get(entity, 0), LAMBDA shell_attr :
    IF ~shell_attr.some
    THEN [ret |-> GeometryError("FacetedBrep missing Outer shell"), dec |-> dec,
          taken |-> <<>>, faces |-> <<>>]
    ELSE
    Bind(resolve_ref(dec, b, shell_attr.val), LAMBDA shell :
    IF ~shell.ret.ok
    THEN [ret |-> CoreError(shell.ret), dec |-> shell.dec, taken |-> <<>>,
          faces |-> <<>>]
    ELSE IF ~shell.ret.val.some
    THEN [ret |-> GeometryError("Failed to resolve Outer shell"), dec |-> shell.dec,
          taken |-> <<>>, faces |-> <<>>]
    ELSE
    Bind(Get(shell.ret.val.val, 0), LAMBDA faces_attr :
    IF ~faces_attr.some
    THEN [ret |-> GeometryError("ClosedShell missing CfsFaces"), dec |-> shell.dec,
          taken |-> <<>>, faces |-> <<>>]
    ELSE
    Bind(resolve_ref_list(shell.dec, b, faces_attr.val), LAMBDA face_refs :
    IF ~face_refs.ret.ok
    THEN [ret |-> CoreError(face_refs.ret), dec |-> face_refs.dec, taken |-> <<>>,
          faces |-> <<>>]
    ELSE
    Bind(FacesFrom(face_refs.dec, b, face_refs.ret.val, 1, failed,
                   [dec |-> face_refs.dec, positions |-> <<>>, taken |-> <<>>,
                    faces |-> <<>>]),
         LAMBDA l :
    [ret |-> Ok([positions |-> l.positions, normals |-> <<>>]), dec |-> l.dec,
     taken |-> l.taken, faces |-> l.faces])))))

(***************************************************************************)
(* The processor on breps whose bounds carry every kind of orientation     *)
(***************************************************************************)
\* The most faces of a brep of the buffers.
MaxFaces == 2

\* An EntityDecoder over the buffer, for the processor to resolve with.
InitBrep ==
    /\ content \in BrepBuffers
    /\ IdleThreads
    /\ IdleStream
    /\ IdleScanner
    /\ IdleMesh
    /\ \E d \in {DecoderNew, DecoderWithIndex(build_entity_index(content))} :
          /\ cache = d.cache
          /\ entity_index = d.entity_index
    /\ dec_ret = [op |-> "new"]
    /\ overflow_checks = FALSE
    /\ router_ret = [op |-> "none"]

\* processor.process(&item, decoder, schema) on a decoded IfcFacetedBrep,
\* with any outcome of the triangulation of each face.
ProcessFacetedBrep ==
    /\ \E id \in DOMAIN build_entity_index(content) :
       \E item \in {decode_by_id(Dec, content, id)} :
        /\ item.ret.ok
        /\ item.ret.val.ifc_type = IfcType("IFCFACETEDBREP")
        /\ \E failed \in SUBSET (1..MaxFaces) :
           \E r \in {FacetedBrepProcess(item.dec, content, item.ret.val, failed)} :
           /\ router_ret' = [op |-> "faceted_brep", item |-> id, failed |-> failed,
                             ret |-> r.ret, taken |-> r.taken, faces |-> r.faces]
           /\ cache' = r.dec.cache
           /\ entity_index' = r.dec.entity_index
    /\ UNCHANGED <<content, scanner_vars, mesh_vars, dec_ret, overflow_checks,
                   threads_vars, stream_vars>>

NextBrep == ProcessFacetedBrep \/ RouterClearCache

SpecBrep == InitBrep /\ [][NextBrep]_vars

\* The attribute is the IFC boolean .F., an Enum whose string is "F".
IsFalse(attr) == attr.some /\ attr.val = [kind |-> "Enum", s |-> "F"]

\* C20: FacetedBrepProcessor reverses the points of a bound's loop exactly
\* when the bound's Orientation is the IFC boolean .F. (the enum string "F"),
\* and keeps their order when it is .T. or absent.
C20_ReversedExactlyWhenOrientationFalse ==
    router_ret.op = "faceted_brep" =>
        \A k \in 1..Len(router_ret.taken) :
            LET t == router_ret.taken[k] IN
            t.points = IF IsFalse(t.orientation)
                       THEN Reverse(t.loop_points)
                       ELSE t.loop_points

\* The type name of an outer bound, which the IfcType enum does not list.
FaceOuterBoundName ==
    <<"I", "F", "C", "F", "A", "C", "E", "O", "U", "T", "E", "R", "B", "O", "U", "N", "D">>

\* The bounds of the face that are IfcFaceOuterBound entities, by position.
OuterBoundsOf(f) ==
    {k \in 1..Len(f.bounds) : f.bounds[k].ifc_type = IfcTypeFromStr(FaceOuterBoundName)}

\* The points of the bounds of the face other than the k-th, in their order.
OtherBounds(f, k) ==
    [m \in 1..(Len(f.bounds) - 1) |->
        IF m < k THEN f.bounds[m].points ELSE f.bounds[m + 1].points]

\* C21: of the bounds of a face whose loops were read, the one that is an
\* IfcFaceOuterBound is the outer boundary wherever it stands in the list and
\* the others are the holes; without an IfcFaceOuterBound the first bound is
\* the outer boundary.
C21_OuterBoundByType ==
    router_ret.op = "faceted_brep" =>
        \A n \in 1..Len(router_ret.faces) :
            LET f == router_ret.faces[n] IN
            f.bounds # <<>> =>
                \E k \in 1..Len(f.bounds) :
                    /\ k \in OuterBoundsOf(f) \/ (OuterBoundsOf(f) = {} /\ k = 1)
                    /\ f.outer = Some(f.bounds[k].points)
                    /\ f.holes = OtherBounds(f, k)

\* A face whose second bound is its only IfcFaceOuterBound, both loops read.
C21_OuterBoundSecond ==
    /\ router_ret.op = "faceted_brep"
    /\ \E n \in 1..Len(router_ret.faces) :
          /\ Len(router_ret.faces[n].bounds) = 2
          /\ OuterBoundsOf(router_ret.faces[n]) = {2}

\* What the code does: the first bound whose loop was read is the outer
\* boundary, whatever the types of the bounds, and the later ones are holes.
C21_FirstBoundIsOuter ==
    router_ret.op = "faceted_brep" =>
        \A n \in 1..Len(router_ret.faces) :
            LET f == router_ret.faces[n] IN
            f.bounds # <<>> =>
                /\ f.outer = Some(f.bounds[1].points)
                /\ f.holes = OtherBounds(f, 1)

(***************************************************************************)
(* ProfileProcessor: the contours of the parametric profiles               *)
(***************************************************************************)
\* Nothing has run: the state every routine taken by itself starts from.
InitIdle ==
    /\ content = <<>>
    /\ IdleScanner
    /\ IdleMesh
    /\ IdleDecoder
    /\ IdleRouter
    /\ IdleThreads
    /\ IdleStream

\* The largest dimension of a profile, in whole units.
MaxDim == 3

\* The f64 coordinates are held as fixed-point numbers, in hundredths; the
\* profile's dimensions are whole numbers.  Point2::new(x, y).
Point2(x, y) == <<x, y>>

\* x / 2.0 of a whole number, in hundredths.
HalfOf(x) == x * 50

\* A whole number in hundredths.
Whole(x) == x * 100

\* cos(k * 2 PI / 64) for k = 0..16, in hundredths.
CosQuarter == <<100, 100, 98, 96, 92, 88, 83, 77, 71, 63, 56, 47, 38, 29, 20, 10, 0>>

\* ((i as f64) * 2.0 * PI / 64.0).cos(), in hundredths.
Cos64(i) ==
    Bind(i % 64, LAMBDA k :
    IF k <= 16 THEN CosQuarter[k + 1]
    ELSE IF k <= 32 THEN -CosQuarter[33 - k]
    ELSE IF k <= 48 THEN -CosQuarter[k - 31]
    ELSE CosQuarter[65 - k])

\* ((i as f64) * 2.0 * PI / 64.0).sin(), in hundredths.
Sin64(i) == Cos64(i + 48)

\* Profile2D::new
Profile2DNew(outer) == [outer |-> outer, holes |-> <<>>]

\* Profile2D::add_hole
add_hole(profile, hole) == [profile EXCEPT !.holes = Append(@, hole)]

\* DecodedEntity::get_float(index) on a profile whose attributes from index 3
\* on are held as get_float gives them: a whole number, or None for an
\* attribute that is no number.
get_float(profile, index) ==
    IF index - 2 \in DOMAIN profile.dims THEN profile.dims[index - 2] ELSE None

\* The first of the attributes 3.. of the profile that get_float does not
\* give, 0 when it gives them all: the `?` after each ok_or_else.
MissingFloat(profile, count) ==
    IF \A k \in 3..(count + 2) : get_float(profile, k).some THEN 0
    ELSE CHOOSE k \in 3..(count + 2) :
            /\ ~get_float(profile, k).some
            /\ \A m \in 3..(k - 1) : get_float(profile, m).some

\* ProfileProcessor::process_rectangle
process_rectangle(profile) ==
    IF MissingFloat(profile, 2) # 0 THEN GeometryError("Rectangle missing dimension")
    ELSE
    Bind(HalfOf(get_float(profile, 3).val), LAMBDA half_x :
    Bind(HalfOf(get_float(profile, 4).val), LAMBDA half_y :
    Ok(Profile2DNew(<<Point2(-half_x, -half_y), Point2(half_x, -half_y),
                      Point2(half_x, half_y), Point2(-half_x, half_y)>>))))

\* The points of a circle of the radius, 64 segments, from angle 0 on.
CirclePoints(radius) ==
    [n \in 1..64 |-> Point2(radius * Cos64(n - 1), radius * Sin64(n - 1))]

\* The same points for i in (0..segments).rev()
CirclePointsRev(radius) ==
    [n \in 1..64 |-> Point2(radius * Cos64(64 - n), radius * Sin64(64 - n))]

\* ProfileProcessor::process_circle
process_circle(profile) ==
    IF MissingFloat(profile, 1) # 0 THEN GeometryError("Circle missing Radius")
    ELSE Ok(Profile2DNew(CirclePoints(get_float(profile, 3).val)))

\* ProfileProcessor::process_i_shape
process_i_shape(profile) ==
    IF MissingFloat(profile, 4) # 0 THEN GeometryError("I-Shape missing dimension")
    ELSE
    Bind(HalfOf(get_float(profile, 3).val), LAMBDA half_width :
    Bind(HalfOf(get_float(profile, 4).val), LAMBDA half_depth :
    Bind(HalfOf(get_float(profile, 5).val), LAMBDA half_web :
    Bind(Whole(get_float(profile, 6).val), LAMBDA flange_thickness :
    Ok(Profile2DNew(
        <<Point2(-half_width, -half_depth),
          Point2(half_width, -half_depth),
          Point2(half_width, -half_depth + flange_thickness),
          Point2(half_web, -half_depth + flange_thickness),
          Point2(half_web, half_depth - flange_thickness),
          Point2(half_width, half_depth - flange_thickness),
          Point2(half_width, half_depth),
          Point2(-half_width, half_depth),
          Point2(-half_width, half_depth - flange_thickness),
          Point2(-half_web, half_depth - flange_thickness),
          Point2(-half_web, -half_depth + flange_thickness),
          Point2(-half_width, -half_depth + flange_thickness)>>))))))

\* ProfileProcessor::process_circle_hollow
process_circle_hollow(profile) ==
    IF MissingFloat(profile, 2) # 0 THEN GeometryError("CircleHollow missing dimension")
    ELSE
    Bind(get_float(profile, 3).val, LAMBDA radius :
    Bind(radius - get_float(profile, 4).val, LAMBDA inner_radius :
    Ok(add_hole(Profile2DNew(CirclePoints(radius)), CirclePointsRev(inner_radius)))))

\* ProfileProcessor::process_l_shape
process_l_shape(profile) ==
    IF MissingFloat(profile, 3) # 0 THEN GeometryError("L-Shape missing dimension")
    ELSE
    Bind(Whole(get_float(profile, 3).val), LAMBDA depth :
    Bind(Whole(get_float(profile, 4).val), LAMBDA width :
    Bind(Whole(get_float(profile, 5).val), LAMBDA thickness :
    Ok(Profile2DNew(
        <<Point2(0, 0), Point2(width, 0), Point2(width, thickness),
          Point2(thickness, thickness), Point2(thickness, depth),
          Point2(0, depth)>>)))))

\* ProfileProcessor::process_u_shape
process_u_shape(profile) ==
    IF MissingFloat(profile, 4) # 0 THEN GeometryError("U-Shape missing dimension")
    ELSE
    Bind(HalfOf(get_float(profile, 3).val), LAMBDA half_depth :
    Bind(Whole(get_float(profile, 4).val), LAMBDA flange_width :
    Bind(Whole(get_float(profile, 5).val), LAMBDA web_thickness :
    Bind(Whole(get_float(profile, 6).val), LAMBDA flange_thickness :
    Ok(Profile2DNew(
        <<Point2(0, -half_depth),
          Point2(flange_width, -half_depth),
          Point2(flange_width, -half_depth + flange_thickness),
          Point2(web_thickness, -half_depth + flange_thickness),
          Point2(web_thickness, half_depth - flange_thickness),
          Point2(flange_width, half_depth - flange_thickness),
          Point2(flange_width, half_depth),
          Point2(0, half_depth)>>))))))

\* ProfileProcessor::process_t_shape
process_t_shape(profile) ==
    IF MissingFloat(profile, 4) # 0 THEN GeometryError("T-Shape missing dimension")
    ELSE
    Bind(Whole(get_float(profile, 3).val), LAMBDA depth :
    Bind(HalfOf(get_float(profile, 4).val), LAMBDA half_flange :
    Bind(HalfOf(get_float(profile, 5).val), LAMBDA half_web :
    Bind(Whole(get_float(profile, 6).val), LAMBDA flange_thickness :
    Ok(Profile2DNew(
        <<Point2(-half_web, 0),
          Point2(-half_web, depth - flange_thickness),
          Point2(-half_flange, depth - flange_thickness),
          Point2(-half_flange, depth),
          Point2(half_flange, depth),
          Point2(half_flange, depth - flange_thickness),
          Point2(half_web, depth - flange_thickness),
          Point2(half_web, 0)>>))))))

\* ProfileProcessor::process_c_shape; the girth is twice the wall thickness
\* when attribute 6 is no float.
process_c_shape(profile) ==
    IF MissingFloat(profile, 3) # 0 THEN GeometryError("C-Shape missing dimension")
    ELSE
    Bind(HalfOf(get_float(profile, 3).val), LAMBDA half_depth :
    Bind(Whole(get_float(profile, 5).val), LAMBDA wall_thickness :
    Bind(IF get_float(profile, 6).some THEN Whole(get_float(profile, 6).val)
         ELSE wall_thickness * 2, LAMBDA girth :
    Ok(Profile2DNew(
        <<Point2(girth, -half_depth),
          Point2(0, -half_depth),
          Point2(0, half_depth),
          Point2(girth, half_depth),
          Point2(girth, half_depth - wall_thickness),
          Point2(wall_thickness, half_depth - wall_thickness),
          Point2(wall_thickness, -half_depth + wall_thickness),
          Point2(girth, -half_depth + wall_thickness)>>)))))

\* ProfileProcessor::process_z_shape
process_z_shape(profile) ==
    IF MissingFloat(profile, 4) # 0 THEN GeometryError("Z-Shape missing dimension")
    ELSE
    Bind(HalfOf(get_float(profile, 3).val), LAMBDA half_depth :
    Bind(Whole(get_float(profile, 4).val), LAMBDA flange_width :
    Bind(HalfOf(get_float(profile, 5).val), LAMBDA half_web :
    Bind(Whole(get_float(profile, 6).val), LAMBDA flange_thickness :
    Ok(Profile2DNew(
        <<Point2(-half_web, -half_depth),
          Point2(-half_web - flange_width, -half_depth),
          Point2(-half_web - flange_width, -half_depth + flange_thickness),
          Point2(-half_web, -half_depth + flange_thickness),
          Point2(-half_web, half_depth - flange_thickness),
          Point2(half_web, half_depth - flange_thickness),
          Point2(half_web, half_depth),
          Point2(half_web + flange_width, half_depth),
          Point2(half_web + flange_width, half_depth - flange_thickness),
          Point2(half_web, half_depth - flange_thickness),
          Point2(half_web, -half_depth + flange_thickness),
          Point2(-half_web, -half_depth + flange_thickness)>>))))))

\* (x * x + y * y).sqrt() of a direction whose length is a whole number.
DirectionLength(x, y) == CHOOSE len \in 0..(x * x + y * y) : len * len = x * x + y * y

\* p' = R * p + t on one point: the direction is (x / len, y / len), the
\* location is in whole units.
TransformPoint(point, loc, dir, len) ==
    Point2((point[1] * dir[1] - point[2] * dir[2]) \div len + Whole(loc[1]),
           (point[1] * dir[2] + point[2] * dir[1]) \div len + Whole(loc[2]))

\* ProfileProcessor::apply_profile_position.  The placement holds the
\* coordinates of its Location and the ratios of its RefDirection as they
\* were resolved, or None for a null one; a direction of length 0 is (1, 0).
apply_profile_position(profile, placement) ==
    Bind(IF ~placement.location.some THEN <<0, 0>> ELSE placement.location.val,
         LAMBDA loc :
    Bind(IF ~placement.ref_direction.some
            \/ DirectionLength(placement.ref_direction.val[1],
                               placement.ref_direction.val[2]) = 0
         THEN <<1, 0>> ELSE placement.ref_direction.val, LAMBDA dir :
    Bind(DirectionLength(dir[1], dir[2]), LAMBDA len :
    IF loc = <<0, 0>> /\ dir[1] = len /\ dir[2] = 0 THEN profile
    ELSE [outer |-> [n \in DOMAIN profile.outer |->
                        TransformPoint(profile.outer[n], loc, dir, len)],
          holes |-> [h \in DOMAIN profile.holes |->
                        [n \in DOMAIN profile.holes[h] |->
                            TransformPoint(profile.holes[h][n], loc, dir, len)]]])))

\* ProfileProcessor::process_parametric.  position is attribute 2 as it was
\* resolved: None when it is null, or an entity with its type.
process_parametric(profile) ==
    Bind(CASE profile.ifc_type = "IFCRECTANGLEPROFILEDEF" -> process_rectangle(profile)
           [] profile.ifc_type = "IFCCIRCLEPROFILEDEF" -> process_circle(profile)
           [] profile.ifc_type = "IFCCIRCLEHOLLOWPROFILEDEF" -> process_circle_hollow(profile)
           [] profile.ifc_type = "IFCISHAPEPROFILEDEF" -> process_i_shape(profile)
           [] profile.ifc_type = "IFCLSHAPEPROFILEDEF" -> process_l_shape(profile)
           [] profile.ifc_type = "IFCUSHAPEPROFILEDEF" -> process_u_shape(profile)
           [] profile.ifc_type = "IFCTSHAPEPROFILEDEF" -> process_t_shape(profile)
           [] profile.ifc_type = "IFCCSHAPEPROFILEDEF" -> process_c_shape(profile)
           [] profile.ifc_type = "IFCZSHAPEPROFILEDEF" -> process_z_shape(profile)
           [] OTHER -> GeometryError("Unsupported parametric profile"),
         LAMBDA base_profile :
    IF ~base_profile.ok THEN base_profile
    ELSE IF profile.position.some
            /\ profile.position.val.ifc_type = "IFCAXIS2PLACEMENT2D"
    THEN Ok(apply_profile_position(base_profile.val, profile.position.val))
    ELSE base_profile)

\* The number of dimensions each parametric profile type reads.
ParametricDims ==
    [IFCRECTANGLEPROFILEDEF |-> 2, IFCCIRCLEPROFILEDEF |-> 1,
     IFCCIRCLEHOLLOWPROFILEDEF |-> 2, IFCISHAPEPROFILEDEF |-> 4,
     IFCLSHAPEPROFILEDEF |-> 3, IFCUSHAPEPROFILEDEF |-> 4,
     IFCTSHAPEPROFILEDEF |-> 4, IFCCSHAPEPROFILEDEF |-> 4,
     IFCZSHAPEPROFILEDEF |-> 4]

\* The Position of a profile: null, a 2D placement with or without Location
\* and RefDirection (along an axis, oblique, of length 0), a 3D placement.
ProfilePositions ==
    {None}
    \cup {Some(p) : p \in
            [ifc_type : {"IFCAXIS2PLACEMENT2D"}, location : {None, Some(<<1, -2>>)},
             ref_direction : {None, Some(<<0, 1>>), Some(<<-2, 0>>), Some(<<3, -4>>),
                              Some(<<0, 0>>)}]}
    \cup {Some([ifc_type |-> "IFCAXIS2PLACEMENT3D", location |-> Some(<<1, -2>>),
                 ref_direction |-> Some(<<0, 1>>)])}

\* The profiles: every parametric type and a type that is none, dimensions
\* from 1 to MaxDim or no number.
ProfileInputs ==
    UNION {[ifc_type : {t},
            dims : [1..ParametricDims[t] -> {None} \cup {Some(d) : d \in 1..MaxDim}],
            position : ProfilePositions] : t \in DOMAIN ParametricDims}
    \cup [ifc_type : {"IFCARBITRARYCLOSEDPROFILEDEF"}, dims : {<<Some(1), Some(1)>>},
          position : ProfilePositions]

\* self.process_parametric(profile, decoder)
ProcessParametric ==
    /\ router_ret.op = "none"
    /\ \E profile \in ProfileInputs :
          router_ret' = [op |-> "process_parametric", profile |-> profile,
                         ret |-> process_parametric(profile)]
    /\ UNCHANGED <<content, scanner_vars, mesh_vars, decoder_vars, overflow_checks,
                   threads_vars, stream_vars>>

\* The profile is dropped.
DropProfile ==
    /\ router_ret.op = "process_parametric"
    /\ router_ret' = [op |-> "none"]
    /\ UNCHANGED <<content, scanner_vars, mesh_vars, decoder_vars, overflow_checks,
                   threads_vars, stream_vars>>

NextProfile == ProcessParametric \/ DropProfile

SpecProfile == InitIdle /\ [][NextProfile]_vars

\* Twice the signed area of the polygon, from its k-th edge on.
RECURSIVE SignedArea2From(_, _)
SignedArea2From(points, k) ==
    IF k > Len(points) THEN 0
    ELSE Bind(points[(k % Len(points)) + 1], LAMBDA next :
         points[k][1] * next[2] - next[1] * points[k][2]
             + SignedArea2From(points, k + 1))

SignedArea2(points) == SignedArea2From(points, 1)

\* The call returned a profile whose dimensions are all positive.
ProfileReturned ==
    /\ router_ret.op = "process_parametric"
    /\ router_ret.ret.ok

\* The dimensions are those of a real section: a thickness or girth (the
\* third and fourth dimensions) fits twice into the width and the depth (the
\* first two), and the wall of a hollow circle is thinner than its radius.
ProperDims ==
    /\ \A k \in DOMAIN router_ret.profile.dims : \A m \in {1, 2} :
          router_ret.profile.dims[k].some /\ k > 2 =>
              2 * router_ret.profile.dims[k].val < router_ret.profile.dims[m].val
    /\ router_ret.profile.ifc_type = "IFCCIRCLEHOLLOWPROFILEDEF" =>
          router_ret.profile.dims[2].val < router_ret.profile.dims[1].val

\* C22: for every parametric profile type with positive dimensions and any
\* Position, the outer contour process returns is wound counter-clockwise
\* (positive signed area) and every hole clockwise (negative signed area).
\* The dimensions are taken to be those of a real section.
C22_OuterCounterClockwiseHolesClockwise ==
    ProfileReturned /\ ProperDims =>
        /\ SignedArea2(router_ret.ret.val.outer) > 0
        /\ \A h \in DOMAIN router_ret.ret.val.holes :
              SignedArea2(router_ret.ret.val.holes[h]) < 0

\* What the code does: on sections with such dimensions the T, C and Z
\* shapes are wound clockwise, the other types as the contract of Profile2D
\* says.
C22_WindingByType ==
    ProfileReturned /\ ProperDims =>
        /\ (SignedArea2(router_ret.ret.val.outer) > 0)
              = (router_ret.profile.ifc_type \notin
                    {"IFCTSHAPEPROFILEDEF", "IFCCSHAPEPROFILEDEF", "IFCZSHAPEPROFILEDEF"})
        /\ \A h \in DOMAIN router_ret.ret.val.holes :
              SignedArea2(router_ret.ret.val.holes[h]) < 0

(***************************************************************************)
(* ProfileProcessor: the two composite-curve handlers                      *)
(***************************************************************************)
\* The most segments of a composite curve and the most points of a segment.
MaxSegments == 2

MaxSegmentPoints == 2

\* SameSense of a segment (attribute 1): true for the enums T and TRUE, false
\* for every other enum, true for an attribute that is no enum and for none.
same_sense(segment) ==
    IF segment.same_sense.some /\ segment.same_sense.val.kind = "Enum"
    THEN segment.same_sense.val.s \in {"T", "TRUE"}
    ELSE TRUE

\* The points of the segment's parent curve in the segment's direction.
SegmentPoints(segment) ==
    IF ~same_sense(segment) THEN Reverse(segment.parent.val) ELSE segment.parent.val

\* Point3::new(p.x, p.y, 0.0): the points of a curve that lies in z = 0.
Lifted(points) == [n \in DOMAIN points |-> <<points[n][1], points[n][2], 0>>]

\* result.extend(segment_points.into_iter().skip(1)), or all of them when
\* either is empty.
ExtendSkippingFirst(result, segment_points) ==
    IF result # <<>> /\ segment_points # <<>>
    THEN result \o Tail(segment_points)
    ELSE result \o segment_points

\* The loop of process_composite_curve_3d from the k-th segment.  A segment
\* holds its type, its SameSense attribute and the points of its resolved
\* ParentCurve, None when the segment has no attribute 2.
RECURSIVE CompositeCurve3dFrom(_, _, _)
CompositeCurve3dFrom(segments, k, result) ==
    IF k > Len(segments) THEN Ok(result)
    ELSE IF ~segments[k].parent.some
    THEN GeometryError("CompositeCurveSegment missing ParentCurve")
    ELSE CompositeCurve3dFrom(segments, k + 1,
             ExtendSkippingFirst(result, Lifted(SegmentPoints(segments[k]))))

\* ProfileProcessor::process_composite_curve_3d on the resolved segments.
process_composite_curve_3d(segments) == CompositeCurve3dFrom(segments, 1, <<>>)

\* for pt in segment_points { if all_points.last() != Some(&pt) { push } }
RECURSIVE PushUnlessLast(_, _, _)
PushUnlessLast(all_points, segment_points, n) ==
    IF n > Len(segment_points) THEN all_points
    ELSE PushUnlessLast(
             IF all_points # <<>> /\ all_points[Len(all_points)] = segment_points[n]
             THEN all_points
             ELSE Append(all_points, segment_points[n]),
             segment_points, n + 1)

\* The loop of process_composite_curve from the k-th segment.
RECURSIVE CompositeCurveFrom(_, _, _)
CompositeCurveFrom(segments, k, all_points) ==
    IF k > Len(segments) THEN Ok(all_points)
    ELSE IF segments[k].ifc_type # "IFCCOMPOSITECURVESEGMENT"
    THEN CompositeCurveFrom(segments, k + 1, all_points)
    ELSE IF ~segments[k].parent.some
    THEN GeometryError("CompositeCurveSegment missing ParentCurve")
    ELSE CompositeCurveFrom(segments, k + 1,
             PushUnlessLast(all_points, SegmentPoints(segments[k]), 1))

\* ProfileProcessor::process_composite_curve on the resolved segments.
process_composite_curve(segments) == CompositeCurveFrom(segments, 1, <<>>)

\* The points of the parent curves.
CurvePoints == {<<0, 0>>, <<1, 0>>}

\* The polylines of up to MaxSegmentPoints points.
ParentCurves == UNION {[1..n -> CurvePoints] : n \in 0..MaxSegmentPoints}

\* The segments: every parent curve in either sense, a segment with a null
\* SameSense, one without ParentCurve and one of another entity type.
SegmentInputs ==
    [ifc_type : {"IFCCOMPOSITECURVESEGMENT"},
     same_sense : {Some([kind |-> "Enum", s |-> "T"]), Some([kind |-> "Enum", s |-> "F"])},
     parent : {Some(c) : c \in ParentCurves}]
    \cup {[ifc_type |-> "IFCCOMPOSITECURVESEGMENT", same_sense |-> Some([kind |-> "Null"]),
           parent |-> Some(<<<<1, 0>>, <<0, 0>>>>)],
          [ifc_type |-> "IFCCOMPOSITECURVESEGMENT", same_sense |-> None, parent |-> None],
          [ifc_type |-> "IFCPOLYLINE", same_sense |-> None,
           parent |-> Some(<<<<1, 0>>, <<0, 0>>>>)]}

\* self.process_composite_curve(curve, decoder) and
\* self.process_composite_curve_3d(curve, decoder) on the same curve.
ProcessCompositeCurve ==
    /\ router_ret.op = "none"
    /\ \E n \in 0..MaxSegments : \E segments \in [1..n -> SegmentInputs] :
          router_ret' = [op |-> "composite_curve", segments |-> segments,
                         ret_2d |-> process_composite_curve(segments),
                         ret_3d |-> process_composite_curve_3d(segments)]
    /\ UNCHANGED <<content, scanner_vars, mesh_vars, decoder_vars, overflow_checks,
                   threads_vars, stream_vars>>

\* The points are dropped.
DropCurve ==
    /\ router_ret.op = "composite_curve"
    /\ router_ret' = [op |-> "none"]
    /\ UNCHANGED <<content, scanner_vars, mesh_vars, decoder_vars, overflow_checks,
                   threads_vars, stream_vars>>

NextCurve == ProcessCompositeCurve \/ DropCurve

SpecCurve == InitIdle /\ [][NextCurve]_vars

\* The join rule of the claim: the points of each segment reversed when
\* SameSense is false, appended without their first point when the output
\* is not empty.
RECURSIVE JoinedFrom(_, _, _)
JoinedFrom(segments, k, out) ==
    IF k > Len(segments) THEN out
    ELSE JoinedFrom(segments, k + 1,
             out \o (IF out # <<>> /\ SegmentPoints(segments[k]) # <<>>
                     THEN Tail(SegmentPoints(segments[k]))
                     ELSE SegmentPoints(segments[k])))

\* Every segment of the curve is a segment with a parent curve.
WellFormedCurve ==
    /\ router_ret.op = "composite_curve"
    /\ \A k \in DOMAIN router_ret.segments :
          /\ router_ret.segments[k].ifc_type = "IFCCOMPOSITECURVESEGMENT"
          /\ router_ret.segments[k].parent.some

\* C23: the 2D and the 3D composite-curve handler apply the same join rule
\* (a segment's points reversed when SameSense is false, its first point
\* skipped when the output is not empty) and give the same point sequence
\* for the same segments in z = 0.
C23_SameJoinRule ==
    WellFormedCurve =>
        /\ router_ret.ret_2d = Ok(JoinedFrom(router_ret.segments, 1, <<>>))
        /\ router_ret.ret_3d = Ok(Lifted(JoinedFrom(router_ret.segments, 1, <<>>)))

\* What the code does: the 3D handler applies the rule; the 2D handler drops
\* a point exactly when it equals the last point of the output.
C23_Handlers ==
    WellFormedCurve =>
        /\ router_ret.ret_3d = Ok(Lifted(JoinedFrom(router_ret.segments, 1, <<>>)))
        /\ \A n \in 1..(Len(router_ret.ret_2d.val) - 1) :
              router_ret.ret_2d.val[n] # router_ret.ret_2d.val[n + 1]

(***************************************************************************)
(* BooleanClippingProcessor on every kind of FirstOperand                  *)
(***************************************************************************)
\* An EntityDecoder over the buffer, for the processor to resolve with.
InitClipping ==
    /\ content \in ClippingBuffers
    /\ IdleThreads
    /\ IdleStream
    /\ IdleScanner
    /\ IdleMesh
    /\ \E d \in {DecoderNew, DecoderWithIndex(build_entity_index(content))} :
          /\ cache = d.cache
          /\ entity_index = d.entity_index
    /\ dec_ret = [op |-> "new"]
    /\ overflow_checks = FALSE
    /\ router_ret = [op |-> "none"]

\* processor.process(&item, decoder, schema) on a decoded
\* IfcBooleanClippingResult.
ProcessBooleanClipping ==
    /\ \E id \in DOMAIN build_entity_index(content) :
       \E item \in {decode_by_id(Dec, content, id)} :
        /\ item.ret.ok
        /\ item.ret.val.ifc_type = IfcType("IFCBOOLEANCLIPPINGRESULT")
        /\ \E r \in {BooleanClippingProcess(item.dec, content, item.ret.val, 1)} :
           /\ router_ret' = [op |-> "boolean_clipping", item |-> id,
                             entity |-> item.ret.val, ret |-> r.ret]
           /\ cache' = r.dec.cache
           /\ entity_index' = r.dec.entity_index
    /\ UNCHANGED <<content, scanner_vars, mesh_vars, dec_ret, overflow_checks,
                   threads_vars, stream_vars>>

NextClipping == ProcessBooleanClipping \/ RouterClearCache

SpecClipping == InitClipping /\ [][NextClipping]_vars

\* The entity an attribute of the entity refers to, resolved by a decoder of
\* its own: None when there is no such attribute or it does not resolve.
OperandOf(b, entity, index) ==
    IF ~Get(entity, index).some THEN None
    ELSE Bind(resolve_ref(DecoderNew, b, Get(entity, index).val), LAMBDA r :
         IF r.ret.ok THEN r.ret.val ELSE None)

\* What the processor registered for the operand's type returns for the
\* operand, a nested clipping result standing for its own FirstOperand.
RECURSIVE OperandMesh(_, _)
OperandMesh(b, operand) ==
    CASE operand.ifc_type \in UnmodelledProcessorTypes -> NotModelled(operand.ifc_type)
      [] operand.ifc_type = IfcType("IFCTRIANGULATEDFACESET") ->
            TriangulatedFaceSetProcess(DecoderNew, b, operand).ret
      [] operand.ifc_type = IfcType("IFCBOOLEANCLIPPINGRESULT") ->
            OperandMesh(b, OperandOf(b, operand, 1).val)
      [] OTHER -> Ok(MeshNew)

\* The clipping results of the buffer, decoded.
ClippingResults(b) ==
    {r.ret.val : r \in {d \in {decode_by_id(DecoderNew, b, id) :
                                   id \in DOMAIN build_entity_index(b)} :
                           /\ d.ret.ok
                           /\ d.ret.val.ifc_type = IfcType("IFCBOOLEANCLIPPINGRESULT")}}

\* The ids the buffer's clipping results name as operand number index.
OperandIds(b, index) ==
    {as_entity_ref(Get(e, index).val).val :
        e \in {r \in ClippingResults(b) :
                  /\ Get(r, index).some
                  /\ as_entity_ref(Get(r, index).val).some}}

\* The entities of the buffers that are a SecondOperand and neither a
\* FirstOperand nor a clipping result: nothing but the decoding of a
\* SecondOperand brings them into a cache.
SecondOperandsOnly ==
    UNION {(OperandIds(b, 2) \ OperandIds(b, 1))
               \ {e.id : e \in ClippingResults(b)} : b \in ClippingBuffers}

\* C24: BooleanClippingProcessor returns exactly what the processor for the
\* type of FirstOperand returns for FirstOperand (a nested clipping result
\* resolved through its own FirstOperand), an empty mesh without error for a
\* FirstOperand of any other type, and never decodes SecondOperand.
C24_ReturnsFirstOperandMesh ==
    router_ret.op = "boolean_clipping" =>
        /\ OperandOf(content, router_ret.entity, 1).some =>
              router_ret.ret = OperandMesh(content, OperandOf(content, router_ret.entity, 1).val)
        /\ DOMAIN cache \cap SecondOperandsOnly = {}

\* The nested result #5 returned the triangle of the face set two levels
\* down, its SecondOperand #20 being a solid of the buffer.
C24_NestedOperandProcessed ==
    /\ router_ret.op = "boolean_clipping"
    /\ router_ret.item = 5
    /\ router_ret.ret.ok
    /\ Len(router_ret.ret.val.positions) = 9
    /\ as_entity_ref(Get(router_ret.entity, 2).val).val \in SecondOperandsOnly

(***************************************************************************)
(* ExtrudedAreaSolidProcessor and extrude_profile                          *)
(***************************************************************************)
\* The largest Depth of an extruded solid, in whole units.
MaxDepth == 2

\* A float that is no number, among the fixed-point coordinates.
NaN == -2147483647

Abs(x) == IF x < 0 THEN -x ELSE x

\* The length of the vector, rounded down.
Norm(v) ==
    Bind(v[1] * v[1] + v[2] * v[2] + v[3] * v[3], LAMBDA norm_squared :
    CHOOSE r \in 0..(Abs(v[1]) + Abs(v[2]) + Abs(v[3])) :
        r * r <= norm_squared /\ (r + 1) * (r + 1) > norm_squared)

\* Vector3::normalize, the result in hundredths: a vector of length 0 gives
\* no number in every component.
Normalize(v) ==
    Bind(Norm(v), LAMBDA norm :
    IF norm = 0 THEN <<NaN, NaN, NaN>>
    ELSE <<(v[1] * 100) \div norm, (v[2] * 100) \div norm, (v[3] * 100) \div norm>>)

\* Vector3::cross of two vectors in hundredths, the result in hundredths.
Cross(a, b) ==
    <<(a[2] * b[3] - a[3] * b[2]) \div 100,
      (a[3] * b[1] - a[1] * b[3]) \div 100,
      (a[1] * b[2] - a[2] * b[1]) \div 100>>

\* A Matrix4 is held by its three axis columns, in hundredths, and its
\* translation column, in hundredths.
Matrix4(x_axis, y_axis, z_axis, t) ==
    [x_axis |-> x_axis, y_axis |-> y_axis, z_axis |-> z_axis, t |-> t]

\* Matrix4::new_translation
new_translation(t) == Matrix4(<<100, 0, 0>>, <<0, 100, 0>>, <<0, 0, 100>>, t)

\* transform.transform_point(&point)
transform_point(m, p) ==
    <<>> \o [k \in 1..3 |->
        (p[1] * m.x_axis[k] + p[2] * m.y_axis[k] + p[3] * m.z_axis[k]) \div 100 + m.t[k]]

\* (normal_matrix * normal.to_homogeneous()).xyz().normalize(): the inverse
\* transpose of a matrix whose axes are orthonormal turns the normal as the
\* matrix turns a direction, and its translation does not move it.
transform_normal(m, n) ==
    IF n[1] = NaN THEN n
    ELSE Normalize(<<>> \o [k \in 1..3 |->
            (n[1] * m.x_axis[k] + n[2] * m.y_axis[k] + n[3] * m.z_axis[k]) \div 100])

\* The rows, each of the given width, one after the other.
Flatten(rows, width) ==
    Bind(<<>> \o rows, LAMBDA all :
    <<>> \o [i \in 1..(width * Len(all)) |->
                all[((i - 1) \div width) + 1][((i - 1) % width) + 1]])

\* extrusion::apply_transform: every position and every normal, in place.
apply_transform(m, transform) ==
    [m EXCEPT
        !.positions = Flatten([v \in 1..(Len(m.positions) \div 3) |->
            transform_point(transform, SubSeq(m.positions, 3 * v - 2, 3 * v))], 3),
        !.normals = Flatten([v \in 1..(Len(m.normals) \div 3) |->
            transform_normal(transform, SubSeq(m.normals, 3 * v - 2, 3 * v))], 3)]

\* Profile2D::triangulate, the points: the outer boundary, then each hole.
\* The triangle indices are those of the earcutr crate and are not computed.
TriangulationPoints(profile) ==
    profile.outer \o Flatten(profile.holes,
                             IF profile.holes = <<>> THEN 0 ELSE Len(profile.holes[1]))

\* create_cap_mesh: mesh.add_vertex for each triangulation point at the
\* height z, all with the cap's normal.
create_cap_mesh(points, z, normal, m) ==
    [m EXCEPT
        !.positions = @ \o Flatten([k \in DOMAIN points |->
                                        <<points[k][1], points[k][2], z>>], 3),
        !.normals = @ \o Flatten([k \in DOMAIN points |-> normal], 3)]

\* The normal of the i-th edge (0-based) of the boundary.
EdgeNormal(boundary, i) ==
    Bind(boundary[i + 1], LAMBDA p0 :
    Bind(boundary[((i + 1) % Len(boundary)) + 1], LAMBDA p1 :
    Normalize(<<-(p1[2] - p0[2]), p1[1] - p0[1], 0>>)))

\* The four vertices create_side_walls adds for the i-th edge: v0_bottom,
\* v1_bottom, v1_top, v0_top.
EdgeQuad(boundary, depth, i) ==
    Bind(boundary[i + 1], LAMBDA p0 :
    Bind(boundary[((i + 1) % Len(boundary)) + 1], LAMBDA p1 :
    <<p0[1], p0[2], 0, p1[1], p1[2], 0, p1[1], p1[2], depth, p0[1], p0[2], depth>>))

\* extrusion::create_side_walls: four vertices with the edge's normal and two
\* triangles for each edge of the boundary.
create_side_walls(boundary, depth, m) ==
    Bind(vertex_count(m), LAMBDA base_index :
    [positions |-> m.positions \o Flatten([e \in DOMAIN boundary |->
                        EdgeQuad(boundary, depth, e - 1)], 12),
     normals |-> m.normals \o Flatten([e \in DOMAIN boundary |->
                        Bind(EdgeNormal(boundary, e - 1), LAMBDA normal :
                        normal \o normal \o normal \o normal)], 12),
     indices |-> m.indices \o Flatten([e \in DOMAIN boundary |->
                        Bind(base_index + (e - 1) * 4, LAMBDA idx :
                        <<idx, idx + 1, idx + 2, idx, idx + 2, idx + 3>>)], 6)])

\* for hole in &profile.holes { create_side_walls(hole, depth, &mut mesh) }
RECURSIVE HoleWalls(_, _, _, _)
HoleWalls(holes, depth, m, k) ==
    IF k > Len(holes) THEN m
    ELSE HoleWalls(holes, depth, create_side_walls(holes[k], depth, m), k + 1)

\* extrusion::extrude_profile.  depth is in hundredths; transform is None or
\* Some(matrix).
extrude_profile(profile, depth, transform) ==
    IF depth <= 0 THEN [ok |-> FALSE, kind |-> "InvalidExtrusion"]
    ELSE IF Len(profile.outer) < 3 THEN [ok |-> FALSE, kind |-> "InvalidProfile"]
    ELSE Bind(TriangulationPoints(profile), LAMBDA points :
         Bind(HoleWalls(profile.holes, depth,
                create_side_walls(profile.outer, depth,
                    create_cap_mesh(points, depth, <<0, 0, 100>>,
                        create_cap_mesh(points, 0, <<0, 0, -100>>, MeshNew))), 1),
              LAMBDA m :
         IF transform.some THEN Ok(apply_transform(m, transform.val)) ELSE Ok(m)))

\* The solid shifted above the profile plane instead.
ShiftDown_Up(depth) == new_translation(<<0, 0, depth>>)

\* The translation that puts the solid below the profile plane.
ShiftDown(depth) == new_translation(<<0, 0, -depth>>)

\* The rotation that turns the local Z axis into the direction of extrusion.
AlignWith(direction) ==
    Bind(Normalize(direction), LAMBDA new_z :
    Bind(IF Abs(new_z[3]) > 90 THEN <<0, 100, 0>> ELSE <<0, 0, 100>>, LAMBDA up :
    Bind(Normalize(Cross(up, new_z)), LAMBDA new_x :
    Bind(Normalize(Cross(new_z, new_x)), LAMBDA new_y :
    Matrix4(new_x, new_y, new_z, <<0, 0, 0>>)))))

\* let transform = if direction.x.abs() < 0.001 && direction.y.abs() < 0.001
\* of ExtrudedAreaSolidProcessor::process.  direction is normalised, in
\* hundredths (0.001 is less than one hundredth); depth is in hundredths.
ExtrusionTransform(direction, depth) ==
    IF Abs(direction[1]) < 1 /\ Abs(direction[2]) < 1
    THEN IF direction[3] < 0 THEN Some(ShiftDown(depth)) ELSE None
    ELSE Some(AlignWith(direction))

\* ratios.get(k).and_then(|v| v.as_float()).unwrap_or(default)
RatioOr(ratios, k, default) == IF k \in DOMAIN ratios THEN ratios[k] ELSE default

\* ExtrudedAreaSolidProcessor::parse_axis2_placement_3d of a placement with a
\* Location and neither Axis nor RefDirection: the default axes, the location
\* as translation.
PositionTransform(placement) ==
    new_translation([k \in 1..3 |-> Whole(placement.location[k])])

\* The Position (attribute 1) applied to the mesh, when it is an
\* IfcAxis2Placement3D.
ApplyPosition(solid, m) ==
    IF solid.position.some /\ solid.position.val.ifc_type = "IFCAXIS2PLACEMENT3D"
    THEN apply_transform(m, PositionTransform(solid.position.val))
    ELSE m

\* The extrusion of the profile along the resolved direction.
ExtrudeAlong(solid, profile) ==
    IF solid.direction.ifc_type # "IFCDIRECTION"
    THEN GeometryError("Expected IfcDirection")
    ELSE IF ~solid.depth.some THEN GeometryError("ExtrudedAreaSolid missing Depth")
    ELSE Bind(Normalize(<<RatioOr(solid.direction.ratios, 1, 0),
                          RatioOr(solid.direction.ratios, 2, 0),
                          RatioOr(solid.direction.ratios, 3, 1)>>), LAMBDA direction :
         Bind(extrude_profile(profile, Whole(solid.depth.val),
                              ExtrusionTransform(direction, Whole(solid.depth.val))),
              LAMBDA extruded :
         IF ~extruded.ok THEN extruded ELSE Ok(ApplyPosition(solid, extruded.val))))

\* ExtrudedAreaSolidProcessor::process on a solid whose SweptArea, Position
\* and ExtrudedDirection are held as they were resolved.
ExtrudedAreaSolidProcess(solid) ==
    Bind(process_parametric(solid.swept_area), LAMBDA profile :
    IF ~profile.ok THEN profile
    ELSE IF profile.val.outer = <<>> THEN Ok(MeshNew)
    ELSE ExtrudeAlong(solid, profile.val))

\* The swept areas: rectangles, hollow circles and L shapes of every
\* dimension, a rectangle that lacks one, a profile of another type.
SweptAreas ==
    {p \in ProfileInputs :
        /\ p.position = None
        /\ \/ /\ p.ifc_type \in {"IFCRECTANGLEPROFILEDEF", "IFCCIRCLEHOLLOWPROFILEDEF",
                                 "IFCLSHAPEPROFILEDEF"}
              /\ \A k \in DOMAIN p.dims : p.dims[k].some
           \/ /\ p.ifc_type = "IFCRECTANGLEPROFILEDEF"
              /\ p.dims = <<Some(1), None>>
           \/ p.ifc_type = "IFCARBITRARYCLOSEDPROFILEDEF"}

\* The directions of extrusion: along and against Z, of length 2, with ratios
\* left out, along X and along Y, and an entity that is no IfcDirection.
ExtrudedDirections ==
    [ifc_type : {"IFCDIRECTION"},
     ratios : {<<0, 0, 1>>, <<0, 0, -1>>, <<0, 0, -2>>, <<>>, <<0, 0>>,
               <<1, 0, 0>>, <<0, 1, 0>>}]
    \cup {[ifc_type |-> "IFCCARTESIANPOINT", ratios |-> <<0, 0, 1>>]}

\* The Position: null, a 3D placement at a location, a placement of another
\* type.
SolidPositions ==
    {None,
     Some([ifc_type |-> "IFCAXIS2PLACEMENT3D", location |-> <<1, -2, 3>>]),
     Some([ifc_type |-> "IFCAXIS2PLACEMENT2D", location |-> <<1, -2, 3>>])}

ExtrudedSolids ==
    [swept_area : SweptAreas, position : SolidPositions,
     direction : ExtrudedDirections,
     depth : {None} \cup {Some(d) : d \in 0..MaxDepth}]

\* processor.process(&entity, &mut decoder, &schema)
ProcessExtrudedAreaSolid ==
    /\ router_ret.op = "none"
    /\ \E solid \in ExtrudedSolids :
          router_ret' = [op |-> "extruded_area_solid", solid |-> solid,
                         ret |-> ExtrudedAreaSolidProcess(solid)]
    /\ UNCHANGED <<content, scanner_vars, mesh_vars, decoder_vars, overflow_checks,
                   threads_vars, stream_vars>>

\* The mesh is dropped.
DropExtrusion ==
    /\ router_ret.op = "extruded_area_solid"
    /\ router_ret' = [op |-> "none"]
    /\ UNCHANGED <<content, scanner_vars, mesh_vars, decoder_vars, overflow_checks,
                   threads_vars, stream_vars>>

NextExtrusion == ProcessExtrudedAreaSolid \/ DropExtrusion

SpecExtrusion == InitIdle /\ [][NextExtrusion]_vars

\* The least and the greatest of a set of numbers.
Least(s) == CHOOSE x \in s : \A y \in s : x <= y

Greatest(s) == CHOOSE x \in s : \A y \in s : x >= y

\* Mesh::bounds of a mesh that is not empty: (min, max).
bounds(m) ==
    <<[k \in 1..3 |-> Least({m.positions[3 * v - 3 + k] :
                                v \in 1..(Len(m.positions) \div 3)})],
      [k \in 1..3 |-> Greatest({m.positions[3 * v - 3 + k] :
                                v \in 1..(Len(m.positions) \div 3)})]>>

\* The bounding box of the profile's points, extended by the range of z.
ProfileBox(profile, z_min, z_max) ==
    Bind(TriangulationPoints(profile), LAMBDA points :
    <<<<Least({points[n][1] : n \in DOMAIN points}),
        Least({points[n][2] : n \in DOMAIN points}), z_min>>,
      <<Greatest({points[n][1] : n \in DOMAIN points}),
        Greatest({points[n][2] : n \in DOMAIN points}), z_max>>>>)

\* A solid with null Position and positive Depth was extruded along the
\* given ratios.
ExtrudedAlong(ratios) ==
    /\ router_ret.op = "extruded_area_solid"
    /\ router_ret.ret.ok
    /\ router_ret.solid.position = None
    /\ router_ret.solid.direction.ratios = ratios
    /\ router_ret.solid.depth.val > 0

\* C25: for an IfcExtrudedAreaSolid with null Position, a profile with
\* bounding box B and Depth d > 0, the bounding box of the mesh is
\* B x [0, d] when ExtrudedDirection is (0,0,1) and B x [-d, 0] when it is
\* (0,0,-1), so that every vertex z lies in [-d, 0] for the -Z direction.
C25_BoundsFollowDirection ==
    /\ ExtrudedAlong(<<0, 0, 1>>) =>
          bounds(router_ret.ret.val)
              = ProfileBox(process_parametric(router_ret.solid.swept_area).val,
                           0, Whole(router_ret.solid.depth.val))
    /\ ExtrudedAlong(<<0, 0, -1>>) =>
          /\ bounds(router_ret.ret.val)
                = ProfileBox(process_parametric(router_ret.solid.swept_area).val,
                             -Whole(router_ret.solid.depth.val), 0)
          /\ \A v \in 1..vertex_count(router_ret.ret.val) :
                /\ router_ret.ret.val.positions[3 * v] >= -Whole(router_ret.solid.depth.val)
                /\ router_ret.ret.val.positions[3 * v] <= 0

\* A rectangle of 1 x 2 was extruded by 2 against Z: its mesh lies between
\* z = -2 and z = 0.
C25_RectangleExtrudedDown ==
    /\ ExtrudedAlong(<<0, 0, -1>>)
    /\ router_ret.solid.swept_area.ifc_type = "IFCRECTANGLEPROFILEDEF"
    /\ router_ret.solid.swept_area.dims = <<Some(1), Some(2)>>
    /\ router_ret.solid.depth = Some(2)
    /\ bounds(router_ret.ret.val) = <<<<-50, -100, -200>>, <<50, 100, 0>>>>

(***************************************************************************)
(* The token parser on number literals                                     *)
(***************************************************************************)
\* The longest literal handed to the token parser.
MaxLiteral == 5

\* The bytes of number literals, a blank and a letter that ends a number.
LiteralAlphabet == {"0", "1", ".", "-", "E", " "}

\* The literals: every text of up to MaxLiteral bytes of the alphabet.
Literals == UNION {[1..n -> LiteralAlphabet] : n \in 0..MaxLiteral}

\* token(input)
ParseToken ==
    /\ dec_ret.op = "none"
    /\ \E input \in Literals :
          dec_ret' = [op |-> "token", input |-> input, ret |-> token(input, 0)]
    /\ UNCHANGED <<content, scanner_vars, mesh_vars, cache, entity_index, router_vars,
                   threads_vars, stream_vars>>

\* The token is dropped.
DropToken ==
    /\ dec_ret.op = "token"
    /\ dec_ret' = [op |-> "none"]
    /\ UNCHANGED <<content, scanner_vars, mesh_vars, cache, entity_index, router_vars,
                   threads_vars, stream_vars>>

NextToken == ParseToken \/ DropToken

SpecToken == InitIdle /\ [][NextToken]_vars

\* The offset of the first digit of a literal: after leading blanks and an
\* optional minus sign.
DigitsFrom(b) == OptMinus(b, ws(b, 0))

\* The offset after the literal's leading run of digits.
DigitsTo(b) == TakeWhile(b, DigitsFrom(b), Digits)

\* The literal starts with a run of digits, after blanks and an optional sign.
StartsWithDigits(b) == DigitsTo(b) > DigitsFrom(b)

\* C26: the token parser tries the float rule before the integer rule: a
\* literal whose digit run is followed by '.' is a Float token that takes the
\* '.' with it, also when no fraction digit follows ("0." is the float zero);
\* it is never an Integer with the '.' left over.  A digit run that no '.'
\* follows is an Integer token that ends where the digits end.
C26_FloatBeforeInteger ==
    dec_ret.op = "token" /\ StartsWithDigits(dec_ret.input) =>
        /\ dec_ret.ret.ok
        /\ IF IsChar(dec_ret.input, DigitsTo(dec_ret.input), ".")
           THEN /\ dec_ret.ret.val.kind = "Float"
                /\ dec_ret.ret.rest > DigitsTo(dec_ret.input)
                /\ dec_ret.input \in {<<"0", ".">>, <<"1", ".">>} =>
                      /\ dec_ret.ret.rest = 2
                      /\ dec_ret.ret.val.mant = Ord(dec_ret.input[1]) - 48
                      /\ dec_ret.ret.val.exp = 0
                      /\ ~dec_ret.ret.val.neg
           ELSE /\ dec_ret.ret.val.kind = "Integer"
                /\ dec_ret.ret.rest = ws(dec_ret.input, DigitsTo(dec_ret.input))

\* The literal "0." was parsed: one Float token that is zero, nothing left.
C26_ZeroDotIsFloat ==
    /\ dec_ret.op = "token"
    /\ dec_ret.input = <<"0", ".">>
    /\ dec_ret.ret = ParseOk([kind |-> "Float", neg |-> FALSE, mant |-> 0, exp |-> 0], 2)

(***************************************************************************)
(* The normals of merged processor meshes                                  *)
(***************************************************************************)
\* The most merge and merge_all calls on the combined mesh.
MaxMergeCalls == 3

\* Ok(Mesh { positions, normals: Vec::new(), indices }): the mesh of the
\* processors that leave the normals to be computed later.
MeshWithoutNormals(positions, indices) ==
    [positions |-> positions, normals |-> <<>>, indices |-> indices]

\* The mesh ExtrudedAreaSolidProcessor makes of a rectangle of 1 x 1 and
\* Depth 1.
ExtrudedMesh ==
    ExtrudedAreaSolidProcess(
        [swept_area |-> [ifc_type |-> "IFCRECTANGLEPROFILEDEF",
                         dims |-> <<Some(1), Some(1)>>, position |-> None],
         position |-> None,
         direction |-> [ifc_type |-> "IFCDIRECTION", ratios |-> <<0, 0, 1>>],
         depth |-> Some(1)]).val

\* The meshes of the processors: an extrusion, the triangle of a
\* triangulated face set or faceted brep, the empty mesh of a face set
\* without faces, the two triangles of a swept disk.
ProcessedMeshes ==
    {ExtrudedMesh,
     MeshWithoutNormals(<<0, 0, 0, 100, 0, 0, 0, 100, 0>>, <<0, 1, 2>>),
     MeshWithoutNormals(<<>>, <<>>),
     MeshWithoutNormals(<<0, 0, 0, 100, 0, 0, 0, 100, 0, 0, 0, 100>>,
                        <<0, 1, 2, 0, 2, 3>>)}

\* combined_mesh.merge(&mesh) with the mesh of a processor
MergeProcessed ==
    /\ mesh_op.op \in {"new", "merged"}
    /\ (IF mesh_op.op = "new" THEN 0 ELSE mesh_op.calls) < MaxMergeCalls
    /\ \E other \in ProcessedMeshes :
          /\ mesh' = [mesh EXCEPT !["a"] = merge(mesh["a"], other)]
          /\ mesh_op' = [op |-> "merged",
                         calls |-> (IF mesh_op.op = "new" THEN 0 ELSE mesh_op.calls) + 1,
                         with_normals |-> other.normals # <<>>]
    /\ UNCHANGED <<content, scanner_vars, decoder_vars, router_vars, mesh_unchecked,
                   threads_vars, stream_vars>>

\* combined_mesh.merge_all(&meshes) with meshes of the processors
MergeAllProcessed ==
    /\ mesh_op.op \in {"new", "merged"}
    /\ (IF mesh_op.op = "new" THEN 0 ELSE mesh_op.calls) < MaxMergeCalls
    /\ \E n \in 0..MaxMergeAll : \E meshes \in [1..n -> ProcessedMeshes] :
          /\ mesh' = [mesh EXCEPT !["a"] = merge_all(mesh["a"], meshes)]
          /\ mesh_op' = [op |-> "merged",
                         calls |-> (IF mesh_op.op = "new" THEN 0 ELSE mesh_op.calls) + 1,
                         with_normals |-> \E k \in 1..n : meshes[k].normals # <<>>]
    /\ UNCHANGED <<content, scanner_vars, decoder_vars, router_vars, mesh_unchecked,
                   threads_vars, stream_vars>>

NextNormals == MeshNewOp \/ MergeProcessed \/ MergeAllProcessed

SpecNormals == InitMesh /\ [][NextNormals]_vars

\* C27: after any sequence of merge and merge_all calls over meshes of the
\* geometry processors, the normals array of the result is empty or as long
\* as the positions array, one normal for each vertex.
C27_NormalsEmptyOrPerVertex ==
    \/ mesh["a"].normals = <<>>
    \/ Len(mesh["a"].normals) = Len(mesh["a"].positions)

\* What merge and merge_all keep: the normals array is never longer than the
\* positions array, and as long as it when every merged mesh that has
\* vertices has one normal for each.
C27_NormalsNeverLonger ==
    Len(mesh["a"].normals) <= Len(mesh["a"].positions)

\* A mesh with normals was merged into a mesh that has vertices without.
C27_MixedMerge ==
    /\ mesh_op.op = "merged"
    /\ mesh_op.with_normals
    /\ mesh["a"].normals # <<>>
    /\ Len(mesh["a"].normals) < Len(mesh["a"].positions)

(***************************************************************************)
(* A full EntityScanner pass beside the entity index of the same buffer    *)
(***************************************************************************)
\* while let Some((id, _, start, end)) = scanner.next_entity(): the triples
\* of the pass from offset pos on, and the offset the scanner is left at.
RECURSIVE ScannerPassFrom(_, _, _)
ScannerPassFrom(b, pos, entities) ==
    Bind(next_entity(b, pos), LAMBDA e :
    IF e.some
    THEN ScannerPassFrom(b, e.position,
                         entities \cup {<<e.id, e.line_start, e.line_end>>})
    ELSE [entities |-> entities, position |-> e.position])

\* A scanner over the buffer is run until next_entity returns None.
FullPass ==
    /\ ~scan_ret.called
    /\ \E pass \in {ScannerPassFrom(content, position, {})} :
          /\ position' = pass.position
          /\ scan_ret' = [called |-> TRUE, pass |-> TRUE, entities |-> pass.entities]
    /\ scan_ended' = TRUE
    /\ UNCHANGED <<content, scan_prev, mesh_vars, decoder_vars, router_vars,
                   threads_vars, stream_vars>>

NextScanIndex == FullPass \/ WithIndex

SpecScanIndex == InitIndex /\ [][NextScanIndex]_vars

\* The entries of the index as triples (id, start, end).
IndexTriples(index) == {<<id, index[id][1], index[id][2]>> : id \in DOMAIN index}

\* No id is written by two statements of the buffer, and no id is returned
\* twice by the scanner pass.
UniqueIds(b, entities) ==
    /\ WrittenIdsFit(b)
    /\ \A s, t \in StatementStarts(b) : IdOf(b, s) = IdOf(b, t) => s = t
    /\ \A e, f \in entities : e[1] = f[1] => e = f

\* The scanner pass and the index of the buffer have both been made.
PassAndIndexMade ==
    /\ scan_ret.called
    /\ entity_index.some

\* C28: for every buffer with unique ids, the (id, start, end) triples of a
\* full EntityScanner pass are the entries of build_entity_index on the same
\* buffer, blanks between an id and its '=' and a '#' that starts no entity
\* before valid entities included.
C28_ScannerEqualsIndex ==
    PassAndIndexMade /\ UniqueIds(content, scan_ret.entities) =>
        scan_ret.entities = IndexTriples(entity_index.val)

\* The buffer "#1 =A;": the scanner returns the entity of id 1 and the index
\* has no entry.
C28_SpacedIdOnlyScanned ==
    /\ PassAndIndexMade
    /\ content = <<"#", "1", " ", "=", "A", ";">>
    /\ scan_ret.entities = {<<1, 0, 6>>}
    /\ IndexTriples(entity_index.val) = {}

\* The buffer "#;#1=;": the scanner stops at the '#' that starts no entity
\* and the index holds the entity of id 1.
C28_StrayHashOnlyIndexed ==
    /\ PassAndIndexMade
    /\ content = <<"#", ";", "#", "1", "=", ";">>
    /\ scan_ret.entities = {}
    /\ IndexTriples(entity_index.val) = {<<1, 2, 6>>}

(***************************************************************************)
(* TriangulatedFaceSetProcessor on the indices of its faces                *)
(***************************************************************************)
\* The most entities the cache holds when another face set is processed
\* without clearing it.
MaxCached == 2

\* An EntityDecoder over the buffer, for the processor to resolve with; the
\* build checks integer overflow or it does not.
InitFaceSet ==
    /\ content \in FaceSetBuffers
    /\ IdleThreads
    /\ IdleStream
    /\ IdleScanner
    /\ IdleMesh
    /\ \E d \in {DecoderNew, DecoderWithIndex(build_entity_index(content))} :
          /\ cache = d.cache
          /\ entity_index = d.entity_index
    /\ dec_ret = [op |-> "new"]
    /\ overflow_checks \in BOOLEAN
    /\ router_ret = [op |-> "none"]

\* processor.process(&entity, &mut decoder, &schema) on a decoded
\* IfcTriangulatedFaceSet.
ProcessTriangulatedFaceSet ==
    /\ router_ret.op = "none"
    /\ \E id \in DOMAIN build_entity_index(content) :
       \E item \in {decode_by_id(Dec, content, id)} :
        /\ item.ret.ok
        /\ item.ret.val.ifc_type = IfcType("IFCTRIANGULATEDFACESET")
        /\ \E r \in {TriangulatedFaceSetProcess(item.dec, content, item.ret.val)} :
           /\ router_ret' = [op |-> "triangulated_face_set", item |-> id,
                             entity |-> item.ret.val,
                             ret |-> IF r.ret.ok
                                     THEN [ok |-> TRUE, kind |-> "Ok", val |-> r.ret.val]
                                     ELSE r.ret]
           /\ cache' = r.dec.cache
           /\ entity_index' = r.dec.entity_index
    /\ UNCHANGED <<content, scanner_vars, mesh_vars, dec_ret, overflow_checks,
                   threads_vars, stream_vars>>

\* The mesh is dropped and the decoder's cache cleared before the next face
\* set.
DropFaceSet ==
    /\ router_ret.op = "triangulated_face_set"
    /\ router_ret' = [op |-> "none"]
    /\ cache' = clear_cache(Dec).cache
    /\ entity_index' = clear_cache(Dec).entity_index
    /\ UNCHANGED <<content, scanner_vars, mesh_vars, dec_ret, overflow_checks,
                   threads_vars, stream_vars>>

\* The mesh is dropped and the cache kept for the next face set, while it
\* holds no more than MaxCached entities.
KeepFaceSet ==
    /\ router_ret.op = "triangulated_face_set"
    /\ Cardinality(DOMAIN cache) <= MaxCached
    /\ router_ret' = [op |-> "none"]
    /\ UNCHANGED <<content, scanner_vars, mesh_vars, decoder_vars, overflow_checks,
                   threads_vars, stream_vars>>

NextFaceSet == ProcessTriangulatedFaceSet \/ DropFaceSet \/ KeepFaceSet

SpecFaceSet == InitFaceSet /\ [][NextFaceSet]_vars

\* The faces of CoordIndex (attribute 3) that are lists, as they are written.
WrittenFaces(entity) ==
    SelectSeq(as_list(Get(entity, 3).val).val, LAMBDA face : as_list(face).some)

\* The face set was processed and every face of its CoordIndex is a list.
FaceSetProcessed ==
    /\ router_ret.op = "triangulated_face_set"
    /\ as_list(Get(router_ret.entity, 3).val).some
    /\ Len(WrittenFaces(router_ret.entity))
          = Len(as_list(Get(router_ret.entity, 3).val).val)

\* C29: TriangulatedFaceSetProcessor emits for each face (a, b, c) of 1-based
\* indices the 0-based (a - 1, b - 1, c - 1), in the order of the face list;
\* the subtraction never passes below zero in u32 (no index wrapped around,
\* no panic, also for an index 0 or a negative one), and every emitted index
\* is smaller than the number of coordinates read.
C29_IndicesZeroBasedInRange ==
    FaceSetProcessed =>
        /\ router_ret.ret.ok
        /\ Len(router_ret.ret.val.indices) = 3 * Len(WrittenFaces(router_ret.entity))
        /\ \A k \in 1..Len(router_ret.ret.val.indices) :
              /\ router_ret.ret.val.indices[k] + 1 =
                    FaceValues(as_list(WrittenFaces(router_ret.entity)
                                            [((k - 1) \div 3) + 1]).val)[((k - 1) % 3) + 1]
              /\ router_ret.ret.val.indices[k] >= 0
              /\ router_ret.ret.val.indices[k] < vertex_count(router_ret.ret.val)

\* What the processor does keep: when it returns a mesh whose faces hold
\* indices from 1 on, each emitted index is the written one less 1, in the
\* order of the face list.
C29_OneBasedIndicesShifted ==
    (FaceSetProcessed /\ router_ret.ret.ok
        /\ \A k \in 1..Len(WrittenFaces(router_ret.entity)) : \A j \in 1..3 :
              FaceValues(as_list(WrittenFaces(router_ret.entity)[k]).val)[j] >= 1) =>
        /\ Len(router_ret.ret.val.indices) = 3 * Len(WrittenFaces(router_ret.entity))
        /\ \A k \in 1..Len(router_ret.ret.val.indices) :
              router_ret.ret.val.indices[k] + 1 =
                    FaceValues(as_list(WrittenFaces(router_ret.entity)
                                            [((k - 1) \div 3) + 1]).val)[((k - 1) % 3) + 1]

\* A face with the index 0 was processed by a build that checks overflow: the
\* processor panicked.
C29_ZeroIndexPanics ==
    /\ router_ret.op = "triangulated_face_set"
    /\ overflow_checks
    /\ router_ret.ret.kind = "Panic"

\* A face with the index 0 was processed by a build that does not check
\* overflow: the emitted index is u32::MAX.
C29_ZeroIndexWraps ==
    /\ router_ret.op = "triangulated_face_set"
    /\ router_ret.ret.ok
    /\ \E k \in 1..Len(router_ret.ret.val.indices) : router_ret.ret.val.indices[k] = -1

\* The face (1, 2, 4) over three coordinates: the index 3 is emitted.
C29_IndexPastCoordinates ==
    /\ router_ret.op = "triangulated_face_set"
    /\ router_ret.ret.ok
    /\ router_ret.ret.val.indices = <<0, 1, 3>>
    /\ vertex_count(router_ret.ret.val) = 3

(***************************************************************************)
(* IfcType::from_str on type names the enum does not enumerate             *)
(***************************************************************************)
\* The longest type name made of the letters below.
MaxName == 3

\* The type names: every text of up to MaxName bytes over four characters,
\* and two names the enum knows.
TypeNames ==
    UNION {[1..n -> {"A", "B", "Z", "9"}] : n \in 0..MaxName}
    \cup {<<"I", "F", "C", "W", "A", "L", "L">>, <<"I", "F", "C", "S", "L", "A", "B">>}

\* IfcType::from_str(a) and IfcType::from_str(b)
FromStr ==
    /\ dec_ret.op = "none"
    /\ \E a \in TypeNames, b \in TypeNames :
          dec_ret' = [op |-> "from_str", names |-> <<a, b>>,
                      types |-> <<IfcTypeFromStr(a), IfcTypeFromStr(b)>>]
    /\ UNCHANGED <<content, scanner_vars, mesh_vars, cache, entity_index, router_vars,
                   threads_vars, stream_vars>>

\* The two types are dropped.
DropTypes ==
    /\ dec_ret.op = "from_str"
    /\ dec_ret' = [op |-> "none"]
    /\ UNCHANGED <<content, scanner_vars, mesh_vars, cache, entity_index, router_vars,
                   threads_vars, stream_vars>>

NextTypeName == FromStr \/ DropTypes

SpecTypeName == InitIdle /\ [][NextTypeName]_vars

\* C30: IfcType::from_str maps two different type names the enum does not
\* enumerate to different Unknown(hash) values, so that equal IfcType values
\* come from equal type names; the hash is the djb2 sum modulo 2^32 cut to
\* its low 16 bits.
C30_EqualTypesEqualNames ==
    (dec_ret.op = "from_str" /\ dec_ret.types[1] = dec_ret.types[2]) =>
        dec_ret.names[1] = dec_ret.names[2]

\* The names "AZ" and "B9" were converted: one Unknown value for both.
C30_Collision ==
    /\ dec_ret.op = "from_str"
    /\ dec_ret.names = << <<"A", "Z">>, <<"B", "9">> >>
    /\ dec_ret.types[1].kind = "Unknown"
    /\ dec_ret.types[1] = dec_ret.types[2]

\* What from_str keeps: a name the enum knows gets a variant no other name
\* gets, and the hash of an unknown name is below 2^16.
C30_KnownNamesDistinct ==
    dec_ret.op = "from_str" =>
        /\ \A k \in 1..2 : dec_ret.types[k].kind = "Unknown" =>
              dec_ret.types[k].hash \in 0..(Half - 1)
        /\ (dec_ret.types[1].kind = "Known" /\ dec_ret.types[1] = dec_ret.types[2]) =>
              dec_ret.names[1] = dec_ret.names[2]

=====
